---- MODULE Spec2Model ----
(***************************************************************************)
(* Model of the virtual transcript editor: the VirtualDataProvider state   *)
(* container (src/contexts/VirtualDataContext.tsx), the text round trip of *)
(* VirtualTranscriptView (src/components/VirtualTranscriptView.tsx) and    *)
(* the alignment engine it calls.                                          *)
(*                                                                         *)
(* React state: every useState cell is a variable holding the latest value *)
(* queued by a setter; `view` is the snapshot taken by the last render,    *)
(* which is what the useCallback closures and the derived values (isDirty, *)
(* canUndo, canRedo, currentVersion) read.  Handlers read `view` and write *)
(* the cells; Render commits the cells into a new snapshot and runs the    *)
(* effects.                                                                *)
(*                                                                         *)
(* Text is a sequence of one-character strings.  Times are integers in     *)
(* milliseconds, NULL (-1) for a null time.  An absent speaker label is    *)
(* the empty sequence (every test the code makes on a label is a           *)
(* truthiness test, which the empty string fails as well).                 *)
(***************************************************************************)
EXTENDS Integers, Sequences, FiniteSets, TLC

VARIABLES
    transcriptVersions,          \* useState<TranscriptVersion[]>
    currentVersionIndex,         \* useState<number>, 0-based as in the source
    mfaData,                     \* useState<MatchedWord[] | null>
    mfaApplied,
    whisperData,
    whisperApplied,
    diarizationSegments,
    speakerMap,
    currentTranscript,           \* the live, "dirty" buffer
    formattedTranscriptApplied,
    originalSpeakerTags,
    view,                        \* what the last render captured
    renderPending,               \* a setter was called since the last render
    calls,                       \* handler calls made so far
    alertShown,                  \* the alert() the last handler call showed, if any
    applyLog,                    \* apply handlers run since the last render, with the
                                 \* processingService calls each made
    edited,                      \* alignment harness: the edited sequence
    reference,                   \* alignment harness: the reference sequence
    aligned,                     \* alignment harness: the result of align
    alignPc,
    words,                       \* VirtualTranscriptView: the words prop
    text,                        \* VirtualTranscriptView: the textarea buffer
    reconciled,                  \* VirtualTranscriptView: last reconcileTextChanges result
    textPc,
    isEditing,                   \* VirtualTranscriptView: useState cell of the edit session
    lastWordsRef,                \* VirtualTranscriptView: the words the text was made from
    saveCalls,                   \* VirtualTranscriptView: calls of onSaveTranscript so far
    engineWords,                 \* engine harness: the word sequence passed in
    engineSegments,              \* engine harness: the diarization segments passed in
    engineOut,                   \* engine harness: the result
    enginePc,
    audioFileName,               \* useState cell: name of the uploaded audio file
    localStorage,                \* the browser's storage: key -> stored value
    containerRef,                \* useLineNumbers: clientWidth of the container, if mounted
    charWidth,                   \* useLineNumbers: width of a character of the measurer
    lineNumbers,                 \* useLineNumbers: the value the hook returned
    linesPc,
    currentLine,                 \* LineHighlightProvider: useState cell
    totalLines                   \* LineHighlightProvider: useState cell

providerVars == <<audioFileName, localStorage, transcriptVersions, currentVersionIndex, mfaData, mfaApplied,
                  whisperData, whisperApplied, diarizationSegments, speakerMap,
                  currentTranscript, formattedTranscriptApplied, originalSpeakerTags,
                  view, renderPending, calls, alertShown, applyLog>>
alignVars == <<edited, reference, aligned, alignPc>>
editVars == <<isEditing, lastWordsRef, saveCalls>>
textVars == <<words, text, reconciled, textPc, editVars>>
engineVars == <<engineWords, engineSegments, engineOut, enginePc>>
lineVars == <<containerRef, charWidth, lineNumbers, linesPc>>
highlightVars == <<currentLine, totalLines>>
hookVars == <<lineVars, highlightVars>>
vars == <<providerVars, alignVars, textVars, engineVars, hookVars>>

(***************************************************************************)
(* Bounds.                                                                 *)
(***************************************************************************)
MaxCalls == 4

NULL == -1

Min(a, b) == IF a < b THEN a ELSE b
Max(a, b) == IF a > b THEN a ELSE b

(***************************************************************************)
(* MatchedWord.                                                            *)
(***************************************************************************)
NoLabel == <<>>

Word(n, t, s, e, para, spk) ==
    [number |-> n, punctuated_word |-> t, start |-> s, end |-> e,
     isParagraphStart |-> para, speakerLabel |-> spk]

hi == <<"h", "i">>
yo == <<"y", "o">>
ok == <<"o", "k">>
S1 == <<"S", "1">>
S2 == <<"S", "2">>

(***************************************************************************)
(* Array.prototype.slice(0, end): a negative end counts from the back.     *)
(***************************************************************************)
Slice0(s, end) ==
    LET e == IF end < 0 THEN Max(Len(s) + end, 0) ELSE Min(end, Len(s))
    IN  SubSeq(s, 1, e)

(***************************************************************************)
(* TranscriptVersion.  JavaScript compares objects by identity; `id` is    *)
(* that identity.  An id is free again once no history, queued or          *)
(* rendered, holds it.                                                     *)
(***************************************************************************)
Version(i, n, w) == [id |-> i, name |-> n, words |-> w]
NoVersion == Version(0, "", <<>>)

IdsOf(tv) == {tv[k].id : k \in DOMAIN tv}

FreshId ==
    CHOOSE i \in 1..(Len(transcriptVersions) + Len(view.transcriptVersions) + 1) :
        i \notin IdsOf(transcriptVersions) \cup IdsOf(view.transcriptVersions)

NoAlert == ""

NoData == [loaded |-> FALSE, words |-> <<>>]
Data(w) == [loaded |-> TRUE, words |-> w]

(***************************************************************************)
(* Derived state of a render.                                              *)
(***************************************************************************)
currentVersionOf(tv, idx) ==
    IF idx >= 0 /\ idx < Len(tv) THEN tv[idx + 1] ELSE NoVersion

\* Variant of isDirty that also counts a changed start or end time.
isDirtyComparingTimes(cv, ct) ==
    IF cv.id = 0 THEN Len(ct) > 0
    ELSE IF Len(cv.words) # Len(ct) THEN TRUE
    ELSE \E k \in DOMAIN ct : cv.words[k] # ct[k]

isDirtyOf(cv, ct) ==
    IF cv.id = 0 THEN Len(ct) > 0
    ELSE IF Len(cv.words) # Len(ct) THEN TRUE
    ELSE \E k \in DOMAIN ct :
            \/ cv.words[k].punctuated_word # ct[k].punctuated_word
            \/ cv.words[k].speakerLabel # ct[k].speakerLabel
            \/ cv.words[k].isParagraphStart # ct[k].isParagraphStart

canUndoOf(idx) == idx > 0
canRedoOf(tv, idx) == idx < Len(tv) - 1

Snapshot(tv, idx, mfa, wh, ct) ==
    [transcriptVersions |-> tv,
     currentVersionIndex |-> idx,
     mfaData |-> mfa,
     whisperData |-> wh,
     currentTranscript |-> ct,
     currentVersion |-> currentVersionOf(tv, idx),
     isDirty |-> isDirtyOf(currentVersionOf(tv, idx), ct),
     canUndo |-> canUndoOf(idx),
     canRedo |-> canRedoOf(tv, idx)]

(***************************************************************************)
(* Characters.                                                             *)
(***************************************************************************)
UpperAlpha == <<"A", "B", "C", "D", "E", "F", "G", "H", "I", "J", "K", "L", "M",
                "N", "O", "P", "Q", "R", "S", "T", "U", "V", "W", "X", "Y", "Z">>
LowerAlpha == <<"a", "b", "c", "d", "e", "f", "g", "h", "i", "j", "k", "l", "m",
                "n", "o", "p", "q", "r", "s", "t", "u", "v", "w", "x", "y", "z">>
Digits == <<"0", "1", "2", "3", "4", "5", "6", "7", "8", "9">>

IsUpper(c) == \E k \in DOMAIN UpperAlpha : UpperAlpha[k] = c
IsLower(c) == \E k \in DOMAIN LowerAlpha : LowerAlpha[k] = c
IsDigit(c) == \E k \in DOMAIN Digits : Digits[k] = c
IsSpace(c) == c \in {" ", "\t", "\r", "\n"}

toLowerCase(t) ==
    [k \in DOMAIN t |->
        IF IsUpper(t[k])
        THEN LowerAlpha[CHOOSE j \in DOMAIN UpperAlpha : UpperAlpha[j] = t[k]]
        ELSE t[k]]

(***************************************************************************)
(* Alignment engine (services/processingService, alignAndApplyTimestamps). *)
(* normalizedText: lower-cased, trailing punctuation stripped.             *)
(***************************************************************************)
TrailingPunctuation == {".", ",", "!", "?", ";", ":"}

RECURSIVE stripTrailing(_)
stripTrailing(t) ==
    IF Len(t) > 0 /\ t[Len(t)] \in TrailingPunctuation
    THEN stripTrailing(SubSeq(t, 1, Len(t) - 1))
    ELSE t

normalizedText(t) == stripTrailing(toLowerCase(t))

LookAheadWindow == 3

\* The reference positions at or after the cursor, inside the window, whose
\* normalized text is that of the edited word.
\* A variant that searches from the start of the reference, not from the cursor.
candidatesFromStart(w, ref, cursor) ==
    {p \in 1..Min(Len(ref), cursor + LookAheadWindow - 1) :
        normalizedText(ref[p].punctuated_word) = normalizedText(w.punctuated_word)}

candidates(w, ref, cursor) ==
    {p \in cursor..Min(Len(ref), cursor + LookAheadWindow - 1) :
        normalizedText(ref[p].punctuated_word) = normalizedText(w.punctuated_word)}

nearest(S) == CHOOSE p \in S : \A q \in S : p <= q

matchedWord(w, n, r) == [w EXCEPT !.number = n, !.start = r.start, !.end = r.end]
\* A variant that leaves an unmatched word's times as they were.
unmatchedKeepingTimes(w, n) == [w EXCEPT !.number = n]

unmatchedWord(w, n) == [w EXCEPT !.number = n, !.start = NULL, !.end = NULL]

RECURSIVE alignFrom(_, _, _, _, _)
alignFrom(ed, ref, i, cursor, acc) ==
    IF i > Len(ed) THEN acc
    ELSE LET c == candidates(ed[i], ref, cursor)
         IN  IF c = {}
             THEN alignFrom(ed, ref, i + 1, cursor,
                            Append(acc, unmatchedWord(ed[i], i)))
             ELSE alignFrom(ed, ref, i + 1, nearest(c) + 1,
                            Append(acc, matchedWord(ed[i], i, ref[nearest(c)])))

\* A variant that appends the reference words after the aligned ones.
alignAppendingReference(ed, ref) == alignFrom(ed, ref, 1, 1, <<>>) \o ref

alignAndApplyTimestamps(ed, ref) == alignFrom(ed, ref, 1, 1, <<>>)

(***************************************************************************)
(* addSpeakerSeparationLines: a synthetic empty-text word between speaker  *)
(* turns.                                                                  *)
(***************************************************************************)
separatorWord == Word(0, <<>>, NULL, NULL, FALSE, NoLabel)

RECURSIVE separateFrom(_, _, _)
separateFrom(ws, i, acc) ==
    IF i > Len(ws) THEN acc
    ELSE IF i > 1 /\ ws[i].isParagraphStart
              /\ ws[i - 1].punctuated_word # <<>>
              /\ ws[i].speakerLabel # ws[i - 1].speakerLabel
         THEN separateFrom(ws, i + 1, acc \o <<separatorWord, ws[i]>>)
         ELSE separateFrom(ws, i + 1, Append(acc, ws[i]))

addSpeakerSeparationLines(ws) == separateFrom(ws, 1, <<>>)

(***************************************************************************)
(* Interpolator (interpolateTimestamps): linear between the nearest timed  *)
(* neighbours, extrapolated at the ends, clamped to be non-decreasing.     *)
(***************************************************************************)
DefaultStepMs == 300

anchorsOf(ws) == {k \in DOMAIN ws : ws[k].start # NULL}
prevAnchor(ws, i) ==
    LET b == {k \in anchorsOf(ws) : k < i}
    IN  IF b = {} THEN 0 ELSE CHOOSE k \in b : \A j \in b : j <= k
nextAnchor(ws, i) ==
    LET a == {k \in anchorsOf(ws) : k > i}
    IN  IF a = {} THEN 0 ELSE CHOOSE k \in a : \A j \in a : k <= j

\* Milliseconds per word between the two timed words nearest to anchor k on
\* the side given by dir (+1 after it, -1 before it).
stepAt(ws, k, dir) ==
    LET o == IF dir > 0 THEN nextAnchor(ws, k) ELSE prevAnchor(ws, k)
    IN  IF o = 0 THEN DefaultStepMs
        ELSE IF dir > 0 THEN (ws[o].start - ws[k].start) \div (o - k)
        ELSE (ws[k].start - ws[o].start) \div (k - o)

\* A variant that extrapolates a leading run forward instead of backward.
interpolatedStartWrongSign(ws, i) ==
    LET p == prevAnchor(ws, i)
        n == nextAnchor(ws, i)
    IN  IF ws[i].start # NULL THEN ws[i].start
        ELSE IF p # 0 /\ n # 0
             THEN ws[p].start + ((ws[n].start - ws[p].start) * (i - p)) \div (n - p)
        ELSE IF n # 0 THEN ws[n].start + stepAt(ws, n, 1) * (n - i)
        ELSE IF p # 0 THEN ws[p].start + stepAt(ws, p, -1) * (i - p)
        ELSE NULL

interpolatedStart(ws, i) ==
    LET p == prevAnchor(ws, i)
        n == nextAnchor(ws, i)
    IN  IF ws[i].start # NULL THEN ws[i].start
        ELSE IF p # 0 /\ n # 0
             THEN ws[p].start + ((ws[n].start - ws[p].start) * (i - p)) \div (n - p)
        ELSE IF n # 0 THEN Max(0, ws[n].start - stepAt(ws, n, 1) * (n - i))
        ELSE IF p # 0 THEN ws[p].start + stepAt(ws, p, -1) * (i - p)
        ELSE NULL

RECURSIVE clampFrom(_, _, _, _)
clampFrom(ws, i, prev, acc) ==
    IF i > Len(ws) THEN acc
    ELSE LET raw == interpolatedStart(ws, i)
             t == IF raw = NULL THEN NULL
                  ELSE IF ws[i].start = NULL THEN Max(raw, prev) ELSE raw
             e == IF ws[i].start = NULL THEN t ELSE ws[i].end
         IN  clampFrom(ws, i + 1, IF t = NULL THEN prev ELSE t,
                       Append(acc, [ws[i] EXCEPT !.start = t, !.end = e]))

interpolateTimestamps(ws) == clampFrom(ws, 1, 0, <<>>)

(***************************************************************************)
(* Inputs.  A file or pasted text is what its parser makes of it: either   *)
(* the parser throws (ok = FALSE) or it returns the parsed value.          *)
(***************************************************************************)
BadFile == [ok |-> FALSE, words |-> <<>>]

MfaWords == <<Word(1, hi, 0, 400, FALSE, NoLabel), Word(2, yo, 500, 900, FALSE, NoLabel)>>
WhisperWords == <<Word(1, hi, 0, 400, FALSE, NoLabel)>>

\* A file that does not parse, one with two words, one that parses to no word.
MfaFiles == {BadFile, [ok |-> TRUE, words |-> MfaWords], [ok |-> TRUE, words |-> <<>>]}
WhisperFiles == {BadFile, [ok |-> TRUE, words |-> WhisperWords]}

Segments == <<[start |-> 0, end |-> 1000, speaker |-> "SPEAKER_00"]>>
PyannoteFiles ==
    {[ok |-> FALSE, segments |-> <<>>, speakerMap |-> {}],
     [ok |-> TRUE, segments |-> Segments, speakerMap |-> {<<"SPEAKER_00", "SPEAKER_00">>}]}

FormattedWords == <<Word(1, hi, 0, NULL, TRUE, S1), Word(2, ok, NULL, NULL, FALSE, S1)>>
FormattedTags == <<[wordIndexBeforeTag |-> 0, tagText |-> S1, kind |-> "speaker"]>>
FormattedFiles ==
    {[ok |-> FALSE, words |-> <<>>, speakerTags |-> <<>>],
     [ok |-> TRUE, words |-> FormattedWords, speakerTags |-> FormattedTags]}

PastedWords == <<Word(1, hi, NULL, NULL, FALSE, NoLabel), Word(2, ok, NULL, NULL, FALSE, NoLabel)>>
PastedTexts == {BadFile, [ok |-> TRUE, words |-> PastedWords]}

\* Word lists saved by the editor view through setTranscript.
\* The second list is the pasted transcript with only the times of a word set.
LiveEdits ==
    {<<Word(1, hi, 0, 400, FALSE, S1), Word(2, ok, NULL, NULL, FALSE, S1),
       Word(3, yo, 500, 900, TRUE, S2)>>,
     <<Word(1, hi, 0, 400, FALSE, NoLabel), Word(2, ok, NULL, NULL, FALSE, NoLabel)>>}

Merges == {<<S2, S1>>}
Replacements == {<<S2, S1>>}
Selections == {<<{2}, S1>>}
SpeakerMaps == {{<<"SPEAKER_00", "SPEAKER_00">>}}

(***************************************************************************)
(* localStorage: the key of the virtual editor's autosave and the key of   *)
(* the classic editor's; a key holds a value or is absent.                 *)
(***************************************************************************)
VirtualKey == "autosave-virtual-data-state"
ClassicKey == "autosave-data-state"
Absent == [absent |-> TRUE]
ClassicState == [classicEditor |-> TRUE]
NoFileName == ""

\* The object the autosave effect writes.
stateToSave ==
    [audioFileName |-> audioFileName,
     transcriptVersions |-> transcriptVersions,
     currentVersionIndex |-> currentVersionIndex,
     mfaApplied |-> mfaApplied,
     whisperApplied |-> whisperApplied,
     diarizationSegments |-> diarizationSegments,
     speakerMap |-> speakerMap,
     formattedTranscriptApplied |-> formattedTranscriptApplied]

\* A variant of the removal at the end of handleReset that clears the storage.
removeEveryItem(storage) == [k \in DOMAIN storage |-> Absent]

removeItem(storage) == [storage EXCEPT ![VirtualKey] = Absent]

(***************************************************************************)
(* Handlers of VirtualDataProvider.                                        *)
(***************************************************************************)
Called == calls < MaxCalls /\ calls' = calls + 1
Queued == renderPending' = TRUE

AudioFileNames == {"a.wav"}

handleAudioUpload(name) ==
    /\ Called
    /\ audioFileName' = name
    /\ Queued
    /\ alertShown' = NoAlert
    /\ UNCHANGED <<transcriptVersions, currentVersionIndex, mfaData, mfaApplied,
                   whisperData, whisperApplied, diarizationSegments, speakerMap,
                   currentTranscript, formattedTranscriptApplied, originalSpeakerTags,
                   view, applyLog, localStorage>>

handleMfaUpload(file) ==
    /\ Called
    /\ IF file.ok
       THEN /\ mfaData' = Data(file.words)
            /\ Queued
            /\ alertShown' = NoAlert
       ELSE /\ alertShown' = "Invalid MFA JSON file"
            /\ UNCHANGED <<mfaData, renderPending>>
    /\ UNCHANGED <<transcriptVersions, currentVersionIndex, mfaApplied, whisperData,
                   whisperApplied, diarizationSegments, speakerMap, currentTranscript,
                   formattedTranscriptApplied, originalSpeakerTags, view, applyLog>>

handleWhisperUpload(file) ==
    /\ Called
    /\ IF file.ok
       THEN /\ whisperData' = Data(file.words)
            /\ Queued
            /\ alertShown' = NoAlert
       ELSE /\ alertShown' = "Invalid Whisper JSON file"
            /\ UNCHANGED <<whisperData, renderPending>>
    /\ UNCHANGED <<transcriptVersions, currentVersionIndex, mfaData, mfaApplied,
                   whisperApplied, diarizationSegments, speakerMap, currentTranscript,
                   formattedTranscriptApplied, originalSpeakerTags, view, applyLog>>

\* A variant that clears the segments before the parser throws.
handlePyannoteUploadPartial(file) ==
    /\ Called
    /\ IF file.ok
       THEN /\ diarizationSegments' = file.segments
            /\ speakerMap' = file.speakerMap
            /\ Queued
            /\ alertShown' = NoAlert
       ELSE /\ diarizationSegments' = <<>>
            /\ Queued
            /\ alertShown' = "Invalid Pyannote JSON file"
            /\ UNCHANGED speakerMap
    /\ UNCHANGED <<transcriptVersions, currentVersionIndex, mfaData, mfaApplied,
                   whisperData, whisperApplied, currentTranscript,
                   formattedTranscriptApplied, originalSpeakerTags, view, applyLog>>

handlePyannoteUpload(file) ==
    /\ Called
    /\ IF file.ok
       THEN /\ diarizationSegments' = file.segments
            /\ speakerMap' = file.speakerMap
            /\ Queued
            /\ alertShown' = NoAlert
       ELSE /\ alertShown' = "Invalid Pyannote JSON file"
            /\ UNCHANGED <<diarizationSegments, speakerMap, renderPending>>
    /\ UNCHANGED <<transcriptVersions, currentVersionIndex, mfaData, mfaApplied,
                   whisperData, whisperApplied, currentTranscript,
                   formattedTranscriptApplied, originalSpeakerTags, view, applyLog>>

handleFormattedTranscriptUpload(file) ==
    /\ Called
    /\ IF file.ok
       THEN /\ originalSpeakerTags' = file.speakerTags
            /\ transcriptVersions' = <<Version(FreshId, "Uploaded Transcript", file.words)>>
            /\ currentVersionIndex' = 0
            /\ formattedTranscriptApplied' = TRUE
            /\ Queued
            /\ alertShown' = NoAlert
       ELSE /\ alertShown' = "Error parsing formatted transcript file"
            /\ UNCHANGED <<originalSpeakerTags, transcriptVersions, currentVersionIndex,
                           formattedTranscriptApplied, renderPending>>
    /\ UNCHANGED <<mfaData, mfaApplied, whisperData, whisperApplied, diarizationSegments,
                   speakerMap, currentTranscript, view, applyLog>>

\* A variant that appends without dropping the versions after the index.
appendedWithoutTruncation(name, ws) ==
    view.transcriptVersions \o <<Version(FreshId, name, ws)>>

\* newVersions of the three handlers that append to the rendered history.
appended(name, ws) ==
    Slice0(view.transcriptVersions, view.currentVersionIndex + 1)
        \o <<Version(FreshId, name, ws)>>

applyCalls(handler) ==
    [handler |-> handler,
     calls |-> <<"alignAndApplyTimestamps", "addSpeakerSeparationLines">>]

\* A variant that also rejects a reference without words.
handleApplyMfaTimestampsRejectingEmpty ==
    /\ Called
    /\ IF ~view.mfaData.loaded \/ view.mfaData.words = <<>>
          \/ Len(view.currentTranscript) = 0
       THEN /\ alertShown' = "No MFA data or transcript available"
            /\ UNCHANGED <<transcriptVersions, currentVersionIndex, mfaData, mfaApplied,
                           applyLog, renderPending>>
       ELSE LET alignedWords ==
                   addSpeakerSeparationLines(
                       alignAndApplyTimestamps(view.currentTranscript,
                                               view.mfaData.words))
                newVersions == appended("MFA Applied", alignedWords)
            IN  /\ transcriptVersions' = newVersions
                /\ currentVersionIndex' = Len(newVersions) - 1
                /\ mfaApplied' = TRUE
                /\ mfaData' = NoData
                /\ applyLog' = Append(applyLog, applyCalls("handleApplyMfaTimestamps"))
                /\ Queued
                /\ alertShown' = NoAlert
    /\ UNCHANGED <<whisperData, whisperApplied, diarizationSegments, speakerMap,
                   currentTranscript, formattedTranscriptApplied, originalSpeakerTags,
                   view>>

handleApplyMfaTimestamps ==
    /\ Called
    /\ IF ~view.mfaData.loaded \/ Len(view.currentTranscript) = 0
       THEN /\ alertShown' = "No MFA data or transcript available"
            /\ UNCHANGED <<transcriptVersions, currentVersionIndex, mfaData, mfaApplied,
                           applyLog, renderPending>>
       ELSE LET alignedWords ==
                   addSpeakerSeparationLines(
                       alignAndApplyTimestamps(view.currentTranscript,
                                               view.mfaData.words))
                newVersions == appended("MFA Applied", alignedWords)
            IN  /\ transcriptVersions' = newVersions
                /\ currentVersionIndex' = Len(newVersions) - 1
                /\ mfaApplied' = TRUE
                /\ mfaData' = NoData
                /\ applyLog' = Append(applyLog, applyCalls("handleApplyMfaTimestamps"))
                /\ Queued
                /\ alertShown' = NoAlert
    /\ UNCHANGED <<whisperData, whisperApplied, diarizationSegments, speakerMap,
                   currentTranscript, formattedTranscriptApplied, originalSpeakerTags,
                   view>>

\* Variant that leaves the uploaded Whisper data in place after applying it.
handleApplyWhisperTimestampsKeepingData ==
    /\ Called
    /\ IF ~view.whisperData.loaded \/ Len(view.currentTranscript) = 0
       THEN /\ alertShown' = "No Whisper data or transcript available"
            /\ UNCHANGED <<transcriptVersions, currentVersionIndex, whisperData,
                           whisperApplied, applyLog, renderPending>>
       ELSE LET alignedWords ==
                   addSpeakerSeparationLines(
                       alignAndApplyTimestamps(view.currentTranscript,
                                               view.whisperData.words))
                newVersions == appended("Whisper Applied", alignedWords)
            IN  /\ transcriptVersions' = newVersions
                /\ currentVersionIndex' = Len(newVersions) - 1
                /\ whisperApplied' = TRUE
                /\ whisperData' = whisperData
                /\ applyLog' = Append(applyLog, applyCalls("handleApplyWhisperTimestamps"))
                /\ Queued
                /\ alertShown' = NoAlert
    /\ UNCHANGED <<mfaData, mfaApplied, diarizationSegments, speakerMap,
                   currentTranscript, formattedTranscriptApplied, originalSpeakerTags,
                   view>>

handleApplyWhisperTimestamps ==
    /\ Called
    /\ IF ~view.whisperData.loaded \/ Len(view.currentTranscript) = 0
       THEN /\ alertShown' = "No Whisper data or transcript available"
            /\ UNCHANGED <<transcriptVersions, currentVersionIndex, whisperData,
                           whisperApplied, applyLog, renderPending>>
       ELSE LET alignedWords ==
                   addSpeakerSeparationLines(
                       alignAndApplyTimestamps(view.currentTranscript,
                                               view.whisperData.words))
                newVersions == appended("Whisper Applied", alignedWords)
            IN  /\ transcriptVersions' = newVersions
                /\ currentVersionIndex' = Len(newVersions) - 1
                /\ whisperApplied' = TRUE
                /\ whisperData' = NoData
                /\ applyLog' = Append(applyLog, applyCalls("handleApplyWhisperTimestamps"))
                /\ Queued
                /\ alertShown' = NoAlert
    /\ UNCHANGED <<mfaData, mfaApplied, diarizationSegments, speakerMap,
                   currentTranscript, formattedTranscriptApplied, originalSpeakerTags,
                   view>>

handleInterpolateEdits ==
    /\ Called
    /\ IF ~view.isDirty
       THEN /\ alertShown' = "No changes to interpolate"
            /\ UNCHANGED <<transcriptVersions, currentVersionIndex, renderPending>>
       ELSE LET newVersions ==
                   appended("Interpolated", interpolateTimestamps(view.currentTranscript))
            IN  /\ transcriptVersions' = newVersions
                /\ currentVersionIndex' = Len(newVersions) - 1
                /\ Queued
                /\ alertShown' = NoAlert
    /\ UNCHANGED <<mfaData, mfaApplied, whisperData, whisperApplied, diarizationSegments,
                   speakerMap, currentTranscript, formattedTranscriptApplied,
                   originalSpeakerTags, view, applyLog>>

handleTranscriptPaste(pasted) ==
    /\ Called
    /\ IF pasted.ok
       THEN /\ transcriptVersions' = <<Version(FreshId, "Pasted Transcript", pasted.words)>>
            /\ currentVersionIndex' = 0
            /\ Queued
            /\ alertShown' = NoAlert
       ELSE /\ alertShown' = "Error parsing pasted transcript"
            /\ UNCHANGED <<transcriptVersions, currentVersionIndex, renderPending>>
    /\ UNCHANGED <<mfaData, mfaApplied, whisperData, whisperApplied, diarizationSegments,
                   speakerMap, currentTranscript, formattedTranscriptApplied,
                   originalSpeakerTags, view, applyLog>>

handleSpeakerMapUpdate(newMap) ==
    /\ Called
    /\ speakerMap' = newMap
    /\ Queued
    /\ UNCHANGED <<transcriptVersions, currentVersionIndex, mfaData, mfaApplied,
                   whisperData, whisperApplied, diarizationSegments, currentTranscript,
                   formattedTranscriptApplied, originalSpeakerTags, view, applyLog>>
    /\ alertShown' = NoAlert

relabelled(ws, from, to) ==
    [k \in DOMAIN ws |->
        [ws[k] EXCEPT !.speakerLabel = IF ws[k].speakerLabel = from THEN to ELSE @]]

onlyTranscript ==
    /\ alertShown' = NoAlert
    /\ UNCHANGED <<transcriptVersions, currentVersionIndex, mfaData, mfaApplied,
                   whisperData, whisperApplied, diarizationSegments, speakerMap,
                   formattedTranscriptApplied, originalSpeakerTags, view, applyLog>>

\* A variant that also writes the merged labels into the stored current version.
handleSpeakerMergeInPlace(from, to) ==
    /\ Called
    /\ currentTranscript' = relabelled(view.currentTranscript, from, to)
    /\ transcriptVersions' =
          [k \in DOMAIN transcriptVersions |->
              IF k = currentVersionIndex + 1
              THEN [transcriptVersions[k] EXCEPT !.words = relabelled(@, from, to)]
              ELSE transcriptVersions[k]]
    /\ Queued
    /\ alertShown' = NoAlert
    /\ UNCHANGED <<currentVersionIndex, mfaData, mfaApplied, whisperData, whisperApplied,
                   diarizationSegments, speakerMap, formattedTranscriptApplied,
                   originalSpeakerTags, view, applyLog>>

handleSpeakerMerge(from, to) ==
    /\ Called
    /\ currentTranscript' = relabelled(view.currentTranscript, from, to)
    /\ Queued
    /\ onlyTranscript

\* A variant that also renames every speaker of the speaker map.
handleReplaceAllSpeakerLabelsInMap(from, to) ==
    /\ Called
    /\ currentTranscript' = relabelled(view.currentTranscript, from, to)
    /\ speakerMap' = {<<p[1], "renamed">> : p \in speakerMap}
    /\ Queued
    /\ alertShown' = NoAlert
    /\ UNCHANGED <<transcriptVersions, currentVersionIndex, mfaData, mfaApplied,
                   whisperData, whisperApplied, diarizationSegments,
                   formattedTranscriptApplied, originalSpeakerTags, view, applyLog>>

handleReplaceAllSpeakerLabels(from, to) ==
    /\ Called
    /\ currentTranscript' = relabelled(view.currentTranscript, from, to)
    /\ Queued
    /\ onlyTranscript

\* indices are 0-based array indices, as in the source.
handleReplaceSelectedSpeakerLabels(indices, to) ==
    /\ Called
    /\ currentTranscript' =
          [k \in DOMAIN view.currentTranscript |->
              [view.currentTranscript[k] EXCEPT
                  !.speakerLabel = IF (k - 1) \in indices THEN to ELSE @]]
    /\ Queued
    /\ onlyTranscript

setTranscript(ws) ==
    /\ Called
    /\ currentTranscript' = ws
    /\ Queued
    /\ onlyTranscript

handleReset(confirmed) ==
    /\ Called
    /\ IF confirmed
       THEN /\ audioFileName' = NoFileName
            /\ mfaData' = NoData
            /\ mfaApplied' = FALSE
            /\ whisperData' = NoData
            /\ whisperApplied' = FALSE
            /\ transcriptVersions' = <<>>
            /\ currentVersionIndex' = 0
            /\ diarizationSegments' = <<>>
            /\ speakerMap' = {}
            /\ currentTranscript' = <<>>
            /\ formattedTranscriptApplied' = FALSE
            /\ originalSpeakerTags' = <<>>
            /\ localStorage' = removeItem(localStorage)
            /\ Queued
       ELSE UNCHANGED <<audioFileName, mfaData, mfaApplied, whisperData, whisperApplied,
                        transcriptVersions, currentVersionIndex, diarizationSegments,
                        speakerMap, currentTranscript, formattedTranscriptApplied,
                        originalSpeakerTags, renderPending, localStorage>>
    /\ alertShown' = NoAlert
    /\ UNCHANGED <<view, applyLog>>

onlyIndex ==
    /\ alertShown' = NoAlert
    /\ UNCHANGED <<transcriptVersions, mfaData, mfaApplied, whisperData, whisperApplied,
                   diarizationSegments, speakerMap, currentTranscript,
                   formattedTranscriptApplied, originalSpeakerTags, view, applyLog>>

\* A variant that decrements without looking at canUndo.
undoUnguarded ==
    /\ Called
    /\ currentVersionIndex' = currentVersionIndex - 1
    /\ Queued
    /\ onlyIndex

undo ==
    /\ Called
    /\ IF view.canUndo
       THEN currentVersionIndex' = currentVersionIndex - 1 /\ Queued
       ELSE UNCHANGED <<currentVersionIndex, renderPending>>
    /\ onlyIndex

\* A variant that steps two versions forward.
redoTwoVersions ==
    /\ Called
    /\ IF view.canRedo
       THEN currentVersionIndex' = currentVersionIndex + 2 /\ Queued
       ELSE UNCHANGED <<currentVersionIndex, renderPending>>
    /\ onlyIndex

redo ==
    /\ Called
    /\ IF view.canRedo
       THEN currentVersionIndex' = currentVersionIndex + 1 /\ Queued
       ELSE UNCHANGED <<currentVersionIndex, renderPending>>
    /\ onlyIndex

\* The sidebar's onSelectVersion, over the versions it was rendered with.
setCurrentVersionIndex(k) ==
    /\ Called
    /\ currentVersionIndex' = k
    /\ Queued
    /\ onlyIndex

(***************************************************************************)
(* Render: commit the queued state, then run the effect that loads the     *)
(* current version into the live transcript when the currentVersion object *)
(* changed; its setTranscript is committed by the render it triggers.      *)
(* The autosave effect writes the saved fields under the virtual key: it   *)
(* runs when one of them changed, and writing unchanged fields again would *)
(* store the value already there (handleReset, the one removal, always     *)
(* sets new array and object values, so the effect follows it).            *)
(***************************************************************************)
\* A variant in which the effect leaves the live transcript alone.
keepLiveTranscript(before, after, live) == live

loadCurrentVersion(before, after, live) ==
    IF after.id # before.id THEN after.words ELSE live

Render ==
    /\ renderPending
    /\ currentTranscript' =
          loadCurrentVersion(view.currentVersion,
                             currentVersionOf(transcriptVersions, currentVersionIndex),
                             currentTranscript)
    /\ view' = Snapshot(transcriptVersions, currentVersionIndex, mfaData, whisperData,
                        currentTranscript')
    /\ renderPending' = FALSE
    /\ applyLog' = <<>>
    /\ UNCHANGED <<audioFileName, transcriptVersions, currentVersionIndex, mfaData,
                   mfaApplied, whisperData, whisperApplied, diarizationSegments,
                   speakerMap, formattedTranscriptApplied, originalSpeakerTags, calls>>
    /\ alertShown' = NoAlert
    /\ localStorage' = [localStorage EXCEPT ![VirtualKey] = stateToSave']

(***************************************************************************)
(* Construction: loadInitialState reads the autosaved state, if any; the   *)
(* state cells start from it and the mount effects run.                    *)
(***************************************************************************)
NoSavedState ==
    [audioFileName |-> NoFileName, transcriptVersions |-> <<>>, currentVersionIndex |-> 0, mfaApplied |-> FALSE,
     whisperApplied |-> FALSE, diarizationSegments |-> <<>>, speakerMap |-> {},
     formattedTranscriptApplied |-> FALSE]

\* A session autosaved after paste, MFA upload and apply, with or without an undo.
SavedVersions ==
    <<Version(1, "Pasted Transcript", PastedWords),
      Version(2, "MFA Applied",
              addSpeakerSeparationLines(alignAndApplyTimestamps(PastedWords, MfaWords)))>>

SavedStates ==
    {NoSavedState} \cup
    {[NoSavedState EXCEPT !.transcriptVersions = SavedVersions,
                          !.currentVersionIndex = i,
                          !.mfaApplied = TRUE] : i \in {0, 1}}

OtherHandler ==
    \/ \E f \in MfaFiles : handleMfaUpload(f)
    \/ \E f \in WhisperFiles : handleWhisperUpload(f)
    \/ \E f \in PyannoteFiles : handlePyannoteUpload(f)
    \/ \E f \in FormattedFiles : handleFormattedTranscriptUpload(f)
    \/ handleApplyMfaTimestamps
    \/ handleApplyWhisperTimestamps
    \/ handleInterpolateEdits
    \/ \E t \in PastedTexts : handleTranscriptPaste(t)
    \/ \E m \in SpeakerMaps : handleSpeakerMapUpdate(m)
    \/ \E p \in Merges : handleSpeakerMerge(p[1], p[2])
    \/ \E p \in Replacements : handleReplaceAllSpeakerLabels(p[1], p[2])
    \/ \E p \in Selections : handleReplaceSelectedSpeakerLabels(p[1], p[2])
    \/ \E ws \in LiveEdits : setTranscript(ws)
    \/ undo
    \/ redo
    \/ \E k \in 0..(Len(view.transcriptVersions) - 1) : setCurrentVersionIndex(k)

\* Of the handlers, handleAudioUpload sets the file name and handleReset also
\* removes the autosave; the others leave both as they are.
Handler ==
    \/ \E n \in AudioFileNames : handleAudioUpload(n)
    \/ \E c \in BOOLEAN : handleReset(c)
    \/ OtherHandler /\ UNCHANGED <<audioFileName, localStorage>>

(***************************************************************************)
(* Leaving the virtual tab unmounts the provider and coming back mounts a  *)
(* new one: its cells start from loadInitialState and the mount effects    *)
(* run.                                                                    *)
(***************************************************************************)
Remount ==
    /\ ~renderPending
    /\ Called
    /\ LET saved == IF localStorage[VirtualKey] = Absent
                    THEN NoSavedState
                    ELSE localStorage[VirtualKey]
       IN  /\ audioFileName' = saved.audioFileName
           /\ transcriptVersions' = saved.transcriptVersions
           /\ currentVersionIndex' = saved.currentVersionIndex
           /\ mfaData' = NoData
           /\ mfaApplied' = saved.mfaApplied
           /\ whisperData' = NoData
           /\ whisperApplied' = saved.whisperApplied
           /\ diarizationSegments' = saved.diarizationSegments
           /\ speakerMap' = saved.speakerMap
           /\ currentTranscript' =
                 currentVersionOf(saved.transcriptVersions,
                                  saved.currentVersionIndex).words
           /\ formattedTranscriptApplied' = saved.formattedTranscriptApplied
    /\ originalSpeakerTags' = <<>>
    /\ view' = Snapshot(transcriptVersions', currentVersionIndex', mfaData', whisperData',
                        currentTranscript')
    /\ renderPending' = FALSE
    /\ alertShown' = NoAlert
    /\ applyLog' = <<>>
    /\ localStorage' = [localStorage EXCEPT ![VirtualKey] = stateToSave']

(***************************************************************************)
(* formatTimestamp (src/hooks/useLineNumbers.ts): M:SS.mmm when minutes >  *)
(* 0, else S.mmm.  The argument is in milliseconds here, so that           *)
(* floor(seconds / 60), floor(seconds % 60) and floor((seconds % 1) *      *)
(* 1000) are the integer quotients below.                                  *)
(***************************************************************************)
RECURSIVE toString(_)
toString(n) ==
    IF n < 10 THEN <<Digits[n + 1]>>
    ELSE Append(toString(n \div 10), Digits[(n % 10) + 1])

RECURSIVE padStart(_, _, _)
padStart(t, len, c) == IF Len(t) >= len THEN t ELSE padStart(<<c>> \o t, len, c)

formatTimestamp(t) ==
    LET mins == t \div 60000
        secs == (t \div 1000) % 60
        ms == t % 1000
    IN  IF mins > 0
        THEN toString(mins) \o <<":">> \o padStart(toString(secs), 2, "0")
                 \o <<".">> \o padStart(toString(ms), 3, "0")
        ELSE toString(secs) \o <<".">> \o padStart(toString(ms), 3, "0")

(***************************************************************************)
(* generateTextFromWords (VirtualTranscriptView.tsx).                      *)
(***************************************************************************)
RECURSIVE join(_, _)
join(parts, sep) ==
    IF Len(parts) = 0 THEN <<>>
    ELSE IF Len(parts) = 1 THEN parts[1]
    ELSE parts[1] \o sep \o join(Tail(parts), sep)

prefixOf(w) ==
    (IF w.start # NULL THEN formatTimestamp(w.start) \o <<" ">> ELSE <<>>)
        \o (IF w.speakerLabel # NoLabel THEN w.speakerLabel \o <<":", " ">> ELSE <<>>)

RECURSIVE generateFrom(_, _, _, _)
generateFrom(ws, i, result, paragraph) ==
    IF i > Len(ws)
    THEN IF Len(paragraph) > 0 THEN result \o join(paragraph, <<" ">>) ELSE result
    ELSE IF ws[i].isParagraphStart /\ i > 1
         THEN generateFrom(ws, i + 1,
                  (IF Len(paragraph) > 0
                   THEN result \o join(paragraph, <<" ">>) \o <<"\n">>
                   ELSE result) \o prefixOf(ws[i]),
                  <<ws[i].punctuated_word>>)
         ELSE IF i = 1
         THEN generateFrom(ws, i + 1, result \o prefixOf(ws[i]),
                           Append(paragraph, ws[i].punctuated_word))
         ELSE generateFrom(ws, i + 1, result, Append(paragraph, ws[i].punctuated_word))

generateTextFromWords(ws) ==
    IF Len(ws) = 0 THEN <<>> ELSE generateFrom(ws, 1, <<>>, <<>>)

(***************************************************************************)
(* String helpers of reconcileTextChanges: split('\n'), trim(),            *)
(* split(/\s+/).filter(w => w).                                            *)
(***************************************************************************)
RECURSIVE splitLines(_, _, _)
splitLines(t, i, cur) ==
    IF i > Len(t) THEN <<cur>>
    ELSE IF t[i] = "\n" THEN <<cur>> \o splitLines(t, i + 1, <<>>)
    ELSE splitLines(t, i + 1, Append(cur, t[i]))

RECURSIVE trimStart(_)
trimStart(t) == IF Len(t) > 0 /\ IsSpace(t[1]) THEN trimStart(Tail(t)) ELSE t

RECURSIVE trimEnd(_)
trimEnd(t) ==
    IF Len(t) > 0 /\ IsSpace(t[Len(t)]) THEN trimEnd(SubSeq(t, 1, Len(t) - 1)) ELSE t

trim(t) == trimEnd(trimStart(t))

RECURSIVE splitWords(_, _, _)
splitWords(t, i, cur) ==
    IF i > Len(t) THEN (IF Len(cur) > 0 THEN <<cur>> ELSE <<>>)
    ELSE IF IsSpace(t[i])
         THEN (IF Len(cur) > 0 THEN <<cur>> ELSE <<>>) \o splitWords(t, i + 1, <<>>)
         ELSE splitWords(t, i + 1, Append(cur, t[i]))

\* The line pattern of reconcileTextChanges:
\*   ^(?:((?:\d{2}:){1,2}\d{2}[.,]\d+)\s+)?
\*    (?:(S\d+|S\?|Speaker\s*\d+|[A-Z][a-zA-Z\s]*?):\s+)?(.*)$
\* Each operator below returns the position of the last character it
\* matched, 0 when it does not match.
charAt(l, k) == IF k >= 1 /\ k <= Len(l) THEN l[k] ELSE ""
digitAt(l, k) == IsDigit(charAt(l, k))

\* The end of the longest run of characters of a class ("d" is \d, "s" is \s,
\* "a" is [a-zA-Z\s]) from position k on; k - 1 when there is none.
InClass(c, class) ==
    CASE class = "d" -> IsDigit(c)
      [] class = "s" -> IsSpace(c)
      [] OTHER -> IsUpper(c) \/ IsLower(c) \/ IsSpace(c)

RECURSIVE runEnd(_, _, _)
runEnd(l, k, class) ==
    IF k <= Len(l) /\ InClass(l[k], class) THEN runEnd(l, k + 1, class) ELSE k - 1

\* \d{2}: at position k
twoDigitsColon(l, k) == digitAt(l, k) /\ digitAt(l, k + 1) /\ charAt(l, k + 2) = ":"

\* \d{2}[.,]\d+ at position k
secondsAt(l, k) ==
    IF digitAt(l, k) /\ digitAt(l, k + 1) /\ charAt(l, k + 2) \in {".", ","}
          /\ digitAt(l, k + 3)
    THEN runEnd(l, k + 3, "d")
    ELSE 0

\* ((?:\d{2}:){1,2}\d{2}[.,]\d+) at the start of the line, followed by \s
timestampEnd(l) ==
    LET two == IF twoDigitsColon(l, 1) /\ twoDigitsColon(l, 4) THEN secondsAt(l, 7) ELSE 0
        one == IF twoDigitsColon(l, 1) THEN secondsAt(l, 4) ELSE 0
        e == IF two # 0 THEN two ELSE one
    IN  IF e # 0 /\ IsSpace(charAt(l, e + 1)) THEN e ELSE 0

\* A variant that takes the colon with or without whitespace after it.
colonOptionalSpaces(l, k) ==
    IF charAt(l, k) = ":" THEN runEnd(l, k + 1, "s") ELSE 0

\* :\s+ at position k
colonSpaces(l, k) ==
    IF charAt(l, k) = ":" /\ IsSpace(charAt(l, k + 1)) THEN runEnd(l, k + 1, "s") ELSE 0

startsWith(l, k, t) == \A j \in DOMAIN t : charAt(l, k + j - 1) = t[j]

\* (S\d+|S\?|Speaker\s*\d+|[A-Z][a-zA-Z\s]*?) at position k, followed by :\s+
speakerEnd(l, k) ==
    LET sNum == IF charAt(l, k) = "S" /\ digitAt(l, k + 1)
                THEN runEnd(l, k + 1, "d") ELSE 0
        sAsk == IF charAt(l, k) = "S" /\ charAt(l, k + 1) = "?" THEN k + 1 ELSE 0
        spk == IF startsWith(l, k, <<"S", "p", "e", "a", "k", "e", "r">>)
               THEN LET d == runEnd(l, k + 7, "s") + 1
                    IN  IF digitAt(l, d) THEN runEnd(l, d, "d") ELSE 0
               ELSE 0
        name == IF IsUpper(charAt(l, k)) THEN runEnd(l, k + 1, "a") ELSE 0
        good(e) == e # 0 /\ colonSpaces(l, e + 1) # 0
    IN  IF good(sNum) THEN sNum
        ELSE IF good(sAsk) THEN sAsk
        ELSE IF good(spk) THEN spk
        ELSE IF good(name) THEN name
        ELSE 0

\* The three groups of the match: timestamp text, speaker tag, content.
matchLine(l) ==
    LET te == timestampEnd(l)
        p == IF te # 0 THEN runEnd(l, te + 1, "s") + 1 ELSE 1
        se == speakerEnd(l, p)
        c == IF se # 0 THEN colonSpaces(l, se + 1) + 1 ELSE p
    IN  [timestampStr |-> SubSeq(l, 1, te),
         speakerTag |-> IF se # 0 THEN SubSeq(l, p, se) ELSE <<>>,
         content |-> SubSeq(l, c, Len(l))]

(***************************************************************************)
(* parseTimestamp (services/processingService, not part of the sources):   *)
(* the value in milliseconds of a [H:]MM:SS.fff token, as the              *)
(* specification's timestamp text format describes it.  It is only ever    *)
(* applied to a string the line pattern accepted.                          *)
(***************************************************************************)
digitValue(c) == (CHOOSE k \in DOMAIN Digits : Digits[k] = c) - 1

RECURSIVE parseInt(_)
parseInt(t) ==
    IF Len(t) = 0 THEN 0
    ELSE parseInt(SubSeq(t, 1, Len(t) - 1)) * 10 + digitValue(t[Len(t)])

fractionMs(t) ==
    LET d(k) == IF k <= Len(t) THEN digitValue(t[k]) ELSE 0
    IN  d(1) * 100 + d(2) * 10 + d(3)

parseTimestamp(t) ==
    IF Len(t) >= 7 /\ t[6] = ":"
    THEN parseInt(SubSeq(t, 1, 2)) * 3600000 + parseInt(SubSeq(t, 4, 5)) * 60000
             + parseInt(SubSeq(t, 7, 8)) * 1000 + fractionMs(SubSeq(t, 10, Len(t)))
    ELSE parseInt(SubSeq(t, 1, 2)) * 60000 + parseInt(SubSeq(t, 4, 5)) * 1000
             + fractionMs(SubSeq(t, 7, Len(t)))

(***************************************************************************)
(* reconcileTextChanges (VirtualTranscriptView.tsx).                       *)
(***************************************************************************)
\* words.find(w => w.punctuated_word === wordText &&
\*                 Math.abs((w.number || 0) - wordNumber) < 10)
abs(n) == IF n < 0 THEN -n ELSE n

originalWordOf(ws, wordText, wordNumber) ==
    LET hits == {k \in DOMAIN ws : /\ ws[k].punctuated_word = wordText
                                   /\ abs(ws[k].number - wordNumber) < 10}
    IN  IF hits = {} THEN 0 ELSE CHOOSE k \in hits : \A j \in hits : k <= j

reconciledWord(ws, wordText, wordNumber, wordIndex, lineIndex, timestamp, speaker) ==
    LET o == originalWordOf(ws, wordText, wordNumber)
    IN  Word(wordNumber, wordText,
             IF o # 0 /\ ws[o].start # NULL THEN ws[o].start
             ELSE IF wordIndex = 0 THEN timestamp ELSE NULL,
             IF o # 0 THEN ws[o].end ELSE NULL,
             lineIndex > 0 /\ wordIndex = 0,
             IF speaker # NoLabel THEN speaker
             ELSE IF o # 0 THEN ws[o].speakerLabel ELSE NoLabel)

\* The words one line contributes, numbered from wordNumber on.
reconcileLine(ws, line, lineIndex, wordNumber) ==
    LET trimmedLine == trim(line)
        m == matchLine(trimmedLine)
        timestamp == IF m.timestampStr # <<>> THEN parseTimestamp(m.timestampStr) ELSE NULL
        speaker == m.speakerTag
        textContent == IF m.content # <<>> THEN m.content ELSE trimmedLine
        wordsInLine == splitWords(textContent, 1, <<>>)
    IN  IF trimmedLine = <<>> THEN <<>>
        ELSE [k \in 1..Len(wordsInLine) |->
                 reconciledWord(ws, wordsInLine[k], wordNumber + k - 1, k - 1,
                                lineIndex, timestamp, speaker)]

RECURSIVE reconcileFrom(_, _, _, _)
reconcileFrom(ws, lines, lineIndex, out) ==
    IF lineIndex >= Len(lines) THEN out
    ELSE reconcileFrom(ws, lines, lineIndex + 1,
             out \o reconcileLine(ws, lines[lineIndex + 1], lineIndex, Len(out) + 1))

reconcileTextChanges(newText, ws) ==
    reconcileFrom(ws, splitLines(newText, 1, <<>>), 0, <<>>)

(***************************************************************************)
(* VirtualTranscriptView: the words prop, the textarea buffer and the      *)
(* editing flag.  textPc is "mounted" when a new words prop has arrived    *)
(* and the text-sync effect has not run yet, "synced" when the buffer      *)
(* shows the words (isEditing false), "editing" while isEditing is true    *)
(* and "saved" after handleBlur passed the reconciled words on.            *)
(***************************************************************************)
MaxWords == 2

WordTexts == {hi, yo}
WordStarts == {NULL, 5250, 725000}
WordLabels == {NoLabel, S1}

WordLists(n) ==
    UNION {{[k \in 1..len |-> Word(k, f[k][1], f[k][2],
                                   IF f[k][2] = NULL THEN NULL ELSE f[k][2] + 400,
                                   f[k][3], f[k][4])] :
               f \in [1..len -> WordTexts \X WordStarts \X BOOLEAN \X WordLabels]} :
           len \in 0..n}

TypedTexts ==
    {<<"0", "0", ":", "0", "5", ".", "2", "5", "0", " ", "S", "1", ":", " ", "h", "i">>,
     <<"h", "i", "\n", "\n", "y", "o">>}

syncText ==
    /\ textPc = "mounted"
    /\ text' = generateTextFromWords(words)
    /\ textPc' = "synced"
    /\ UNCHANGED <<words, reconciled>>

handleFocus ==
    /\ textPc = "synced"
    /\ textPc' = "editing"
    /\ UNCHANGED <<words, text, reconciled>>

handleTextChange(newText) ==
    /\ textPc \in {"synced", "editing"}
    /\ text' = newText
    /\ textPc' = "editing"
    /\ UNCHANGED <<words, reconciled>>

handleBlur ==
    /\ textPc = "editing"
    /\ reconciled' = reconcileTextChanges(text, words)
    /\ textPc' = "saved"
    /\ UNCHANGED <<words, text>>

\* insertSegmentTimestamp with a collapsed selection: a line break, the
\* formatted time, the label and ": " go in at the cursor, and the deferred
\* textarea.focus() starts the edit session.  The cursor is in front of a
\* word of the text as generated, so that one insertion is made per session.
SegmentTimes == {5250, 725000}
SegmentLabels == {S1}

selectionStarts(t) == {0} \cup {p \in 1..(Len(t) - 1) : t[p] \in {" ", "\n"}}

segmentInserted(t, selectionStart, time, speakerLabel) ==
    SubSeq(t, 1, selectionStart)
        \o <<"\n">> \o formatTimestamp(time) \o <<" ">> \o speakerLabel \o <<":", " ">>
        \o SubSeq(t, selectionStart + 1, Len(t))

insertSegmentTimestamp(time, speakerLabel, selectionStart) ==
    /\ textPc \in {"synced", "editing"}
    /\ text = generateTextFromWords(words)
    /\ text' = segmentInserted(text, selectionStart, time, speakerLabel)
    /\ textPc' = "editing"
    /\ UNCHANGED <<words, reconciled>>

(***************************************************************************)
(* An edit session on a short transcript: lines typed with and without a   *)
(* leading label, over originals that carry a label of their own or none.  *)
(***************************************************************************)
SessionWords ==
    {<<>>,
     <<Word(1, hi, NULL, NULL, FALSE, NoLabel)>>,
     <<Word(1, hi, 725000, 725400, FALSE, S2)>>,
     <<Word(1, hi, NULL, NULL, FALSE, S2), Word(2, yo, NULL, NULL, FALSE, NoLabel)>>,
     <<Word(1, yo, 5250, 5650, FALSE, S1), Word(2, hi, NULL, NULL, TRUE, S2)>>}

\* "S1: hi", "S1:hi", "S1 hi", "S?: hi yo", "Speaker 1: hi", "Bob: hi",
\* "bob: hi", "12:05.000 S1: hi", "hi" / "S1: yo", "S1:", "hi yo", "S2 : hi"
TypedLines ==
    {<<"S", "1", ":", " ", "h", "i">>,
     <<"S", "1", ":", "h", "i">>,
     <<"S", "1", " ", "h", "i">>,
     <<"S", "?", ":", " ", "h", "i", " ", "y", "o">>,
     <<"S", "p", "e", "a", "k", "e", "r", " ", "1", ":", " ", "h", "i">>,
     <<"B", "o", "b", ":", " ", "h", "i">>,
     <<"b", "o", "b", ":", " ", "h", "i">>,
     <<"1", "2", ":", "0", "5", ".", "0", "0", "0", " ", "S", "1", ":", " ", "h", "i">>,
     <<"h", "i", "\n", "S", "1", ":", " ", "y", "o">>,
     <<"S", "1", ":">>,
     <<"h", "i", " ", "y", "o">>,
     <<"S", "2", " ", ":", " ", "h", "i">>}

(***************************************************************************)
(* The alignment engine applied to one edited and one reference sequence.  *)
(***************************************************************************)
MaxEdited == 3
MaxReference == 4

The == <<"T", "h", "e">>
theComma == <<"t", "h", "e", ",">>
cat == <<"c", "a", "t">>

\* Edited words: untimed, or carrying a stale time no reference word has.
EditedChoices == {<<The, NULL>>, <<theComma, 77>>, <<cat, NULL>>}
ReferenceTexts == {The, theComma, cat}

EditedInputs ==
    UNION {{[k \in 1..len |-> Word(k, f[k][1], f[k][2], f[k][2], FALSE, NoLabel)] :
               f \in [1..len -> EditedChoices]} : len \in 0..MaxEdited}

\* Reference words: timed by position, every start time distinct.
ReferenceInputs ==
    UNION {{[k \in 1..len |-> Word(k, f[k], 500 * k, 500 * k + 400, FALSE, NoLabel)] :
               f \in [1..len -> ReferenceTexts]} : len \in 0..MaxReference}

align ==
    /\ alignPc = "ready"
    /\ aligned' = alignAndApplyTimestamps(edited, reference)
    /\ alignPc' = "done"
    /\ UNCHANGED <<edited, reference>>

(***************************************************************************)
(* The interpolator applied to one word sequence.                          *)
(***************************************************************************)
MaxTimed == 4

\* Start times of the words passed in: none, two clustered anchors, a far one.
TimedStarts == {NULL, 100, 101, 3000}

TimedInputs ==
    UNION {{[k \in 1..len |-> Word(k, hi, f[k], IF f[k] = NULL THEN NULL ELSE f[k] + 50,
                                   FALSE, NoLabel)] :
               f \in [1..len -> TimedStarts]} : len \in 0..MaxTimed}

interpolate ==
    /\ enginePc = "ready"
    /\ engineOut' = interpolateTimestamps(engineWords)
    /\ enginePc' = "interpolated"
    /\ UNCHANGED <<engineWords, engineSegments>>

(***************************************************************************)
(* Diarization overlay (overlayDiarization): a timed word without a label  *)
(* takes the label of the segment whose [start, end) holds its start time, *)
(* else of the segment nearest by boundary distance, the earlier one on a  *)
(* tie; the first word of every run of one label starts a paragraph.       *)
(* Segments arrive sorted by start time.                                   *)
(***************************************************************************)
\* A variant that takes the segment interval as closed at its end.
labelAtClosedInterval(segs, t) ==
    LET inside == {i \in DOMAIN segs : segs[i].start <= t /\ t <= segs[i].end}
        distance(i) == IF t < segs[i].start THEN segs[i].start - t ELSE t - segs[i].end
        nearestSegs == {i \in DOMAIN segs : \A j \in DOMAIN segs : distance(i) <= distance(j)}
        pick(S) == CHOOSE i \in S : \A j \in S : i <= j
    IN  segs[IF inside # {} THEN pick(inside) ELSE pick(nearestSegs)].speaker

labelAt(segs, t) ==
    LET inside == {i \in DOMAIN segs : segs[i].start <= t /\ t < segs[i].end}
        distance(i) == IF t < segs[i].start THEN segs[i].start - t ELSE t - segs[i].end
        nearestSegs == {i \in DOMAIN segs : \A j \in DOMAIN segs : distance(i) <= distance(j)}
        before == {i \in nearestSegs : segs[i].end <= t}
        pick(S) == CHOOSE i \in S : \A j \in S : i <= j
    IN  segs[IF inside # {} THEN pick(inside)
             ELSE IF before # {} THEN pick(before)
             ELSE pick(nearestSegs)].speaker

overlayDiarization(ws, segs) ==
    LET labelled ==
            [k \in DOMAIN ws |->
                IF ws[k].start # NULL /\ ws[k].speakerLabel = NoLabel /\ Len(segs) > 0
                THEN [ws[k] EXCEPT !.speakerLabel = labelAt(segs, ws[k].start)]
                ELSE ws[k]]
    IN  [k \in DOMAIN ws |->
            [labelled[k] EXCEPT
                !.isParagraphStart =
                    \/ @
                    \/ k = 1
                    \/ labelled[k].speakerLabel # labelled[k - 1].speakerLabel]]

MaxOverlaid == 2

\* Two touching segments, one overlapping the first, one after a gap.
SegmentChoices ==
    {[start |-> 0, end |-> 1000, speaker |-> S1],
     [start |-> 1000, end |-> 2000, speaker |-> S2],
     [start |-> 500, end |-> 1500, speaker |-> S2],
     [start |-> 3000, end |-> 4000, speaker |-> S1]}

RECURSIVE sortedByStart(_)
sortedByStart(S) ==
    IF S = {} THEN <<>>
    ELSE LET first == CHOOSE x \in S : \A y \in S : x.start <= y.start
         IN  <<first>> \o sortedByStart(S \ {first})

OverlaySegments == {sortedByStart(S) : S \in SUBSET SegmentChoices}

OverlayWords ==
    UNION {{[k \in 1..len |-> Word(k, hi, f[k][1], f[k][1], FALSE, f[k][2])] :
               f \in [1..len -> {NULL, 0, 1000, 2000, 2500} \X {NoLabel, S2}]} :
           len \in 0..MaxOverlaid}

overlay ==
    /\ enginePc = "ready"
    /\ engineOut' = overlayDiarization(engineWords, engineSegments)
    /\ enginePc' = "overlaid"
    /\ UNCHANGED <<engineWords, engineSegments>>

(***************************************************************************)
(* Specifications.                                                         *)
(***************************************************************************)
AlignIdle ==
    /\ edited = <<>>
    /\ reference = <<>>
    /\ aligned = <<>>
    /\ alignPc = "idle"

EngineIdle ==
    /\ engineWords = <<>>
    /\ engineSegments = <<>>
    /\ engineOut = <<>>
    /\ enginePc = "idle"

EditIdle ==
    /\ isEditing = FALSE
    /\ lastWordsRef = <<>>
    /\ saveCalls = 0

TextIdle ==
    /\ words = <<>>
    /\ text = <<>>
    /\ reconciled = <<>>
    /\ textPc = "idle"
    /\ EditIdle

NoContainer == NULL
NoLines == [lines |-> <<>>, totalLines |-> 0]

LineIdle ==
    /\ containerRef = NoContainer
    /\ charWidth = 0
    /\ lineNumbers = NoLines
    /\ linesPc = "idle"

HighlightIdle ==
    /\ currentLine = 1
    /\ totalLines = 0

HooksIdle == LineIdle /\ HighlightIdle

ProviderStart(saved) ==
    /\ audioFileName = saved.audioFileName
    /\ localStorage = (VirtualKey :> saved) @@ (ClassicKey :> ClassicState)
    /\ transcriptVersions = saved.transcriptVersions
    /\ currentVersionIndex = saved.currentVersionIndex
    /\ mfaData = NoData
    /\ mfaApplied = saved.mfaApplied
    /\ whisperData = NoData
    /\ whisperApplied = saved.whisperApplied
    /\ diarizationSegments = saved.diarizationSegments
    /\ speakerMap = saved.speakerMap
    /\ currentTranscript =
          currentVersionOf(saved.transcriptVersions, saved.currentVersionIndex).words
    /\ formattedTranscriptApplied = saved.formattedTranscriptApplied
    /\ originalSpeakerTags = <<>>
    /\ view = Snapshot(transcriptVersions, currentVersionIndex, mfaData, whisperData,
                       currentTranscript)
    /\ renderPending = FALSE
    /\ calls = 0
    /\ alertShown = NoAlert
    /\ applyLog = <<>>

ProviderInit == \E saved \in SavedStates : ProviderStart(saved)

\* The provider with batched handler calls.
Init == ProviderInit /\ AlignIdle /\ TextIdle /\ EngineIdle /\ HooksIdle

Next ==
    \/ Handler /\ UNCHANGED <<hookVars, alignVars, textVars, engineVars>>
    \/ Render /\ UNCHANGED <<hookVars, alignVars, textVars, engineVars>>
    \/ Remount /\ UNCHANGED <<hookVars, alignVars, textVars, engineVars>>

Spec == Init /\ [][Next]_vars

\* The provider with every handler call rendered before the next one.
NextSerial ==
    \/ ~renderPending /\ Handler /\ UNCHANGED <<hookVars, alignVars, textVars, engineVars>>
    \/ Render /\ UNCHANGED <<hookVars, alignVars, textVars, engineVars>>
    \/ Remount /\ UNCHANGED <<hookVars, alignVars, textVars, engineVars>>

SpecSerial == Init /\ [][NextSerial]_vars

\* The text view over every word list of at most MaxWords words.
InitText ==
    /\ ProviderStart(NoSavedState)
    /\ HooksIdle
    /\ AlignIdle
    /\ EngineIdle
    /\ words \in WordLists(MaxWords)
    /\ text = <<>>
    /\ reconciled = <<>>
    /\ textPc = "mounted"
    /\ EditIdle

NextText ==
    \/ syncText /\ UNCHANGED <<hookVars, providerVars, alignVars, engineVars, editVars>>
    \/ handleFocus /\ UNCHANGED <<hookVars, providerVars, alignVars, engineVars, editVars>>
    \/ \E t \in TypedTexts : handleTextChange(t) /\ UNCHANGED <<hookVars, providerVars, alignVars, engineVars, editVars>>
    \/ handleBlur /\ UNCHANGED <<hookVars, providerVars, alignVars, engineVars, editVars>>
    \/ /\ \E time \in SegmentTimes : \E label \in SegmentLabels :
             \E p \in selectionStarts(text) : insertSegmentTimestamp(time, label, p)
       /\ UNCHANGED <<hookVars, providerVars, alignVars, engineVars, editVars>>

SpecText == InitText /\ [][NextText]_vars

\* The text view in an edit session over the short transcripts.
InitSession ==
    /\ ProviderStart(NoSavedState)
    /\ HooksIdle
    /\ AlignIdle
    /\ EngineIdle
    /\ words \in SessionWords
    /\ text = <<>>
    /\ reconciled = <<>>
    /\ textPc = "mounted"
    /\ EditIdle

NextSession ==
    \/ syncText /\ UNCHANGED <<hookVars, providerVars, alignVars, engineVars, editVars>>
    \/ handleFocus /\ UNCHANGED <<hookVars, providerVars, alignVars, engineVars, editVars>>
    \/ \E t \in TypedLines : handleTextChange(t) /\ UNCHANGED <<hookVars, providerVars, alignVars, engineVars, editVars>>
    \/ handleBlur /\ UNCHANGED <<hookVars, providerVars, alignVars, engineVars, editVars>>

SpecSession == InitSession /\ [][NextSession]_vars

(***************************************************************************)
(* The edit session of VirtualTranscriptView.  An action is one event: the *)
(* handler runs on the state of the last render, the component renders     *)
(* again and the "initialize text from words" effect runs.  The textarea   *)
(* is rendered only while isEditing, the display layer only while not.     *)
(***************************************************************************)
MaxSaves == 2

KeyEvents ==
    {[ctrlKey |-> TRUE, metaKey |-> FALSE, key |-> "s"],
     [ctrlKey |-> FALSE, metaKey |-> TRUE, key |-> "s"],
     [ctrlKey |-> FALSE, metaKey |-> FALSE, key |-> "s"],
     [ctrlKey |-> TRUE, metaKey |-> FALSE, key |-> "a"]}

\* Texts typed in a session: "S1: hi", "hi yo", "hi" / "S1: yo".
EditedTexts ==
    {<<"S", "1", ":", " ", "h", "i">>,
     <<"h", "i", " ", "y", "o">>,
     <<"h", "i", "\n", "S", "1", ":", " ", "y", "o">>}

\* Values of the words prop.
EditWords ==
    {<<>>,
     <<Word(1, hi, 725000, 725400, FALSE, S2)>>,
     <<Word(1, yo, 5250, 5650, FALSE, S1), Word(2, hi, NULL, NULL, TRUE, S2)>>}

\* Variant of the effect without the isEditing test.
initializeTextWhileEditing(t, w, editing, last) ==
    IF w # last
    THEN [text |-> generateTextFromWords(w), lastWordsRef |-> w]
    ELSE [text |-> t, lastWordsRef |-> last]

\* The effect on [words, isEditing]: text buffer and ref after it ran.
initializeText(t, w, editing, last) ==
    IF ~editing /\ w # last
    THEN [text |-> generateTextFromWords(w), lastWordsRef |-> w]
    ELSE [text |-> t, lastWordsRef |-> last]

\* The render that follows an event, with the effect.
rendered(t, w, editing) ==
    LET after == initializeText(t, w, editing, lastWordsRef)
    IN  /\ words' = w
        /\ isEditing' = editing
        /\ text' = after.text
        /\ lastWordsRef' = after.lastWordsRef

\* The parent passes another words array.
wordsProp(ws) ==
    /\ ws # words
    /\ rendered(text, ws, isEditing)
    /\ UNCHANGED <<reconciled, saveCalls, textPc>>

\* Click on the display layer.
onClick ==
    /\ ~isEditing
    /\ rendered(text, words, TRUE)
    /\ UNCHANGED <<reconciled, saveCalls, textPc>>

\* handleTextChange as the textarea's onChange.
onChange(newText) ==
    /\ isEditing
    /\ rendered(newText, words, TRUE)
    /\ UNCHANGED <<reconciled, saveCalls, textPc>>

\* handleBlur; called with isEditing false it does nothing.
onBlur ==
    /\ isEditing => saveCalls < MaxSaves
    /\ IF isEditing
       THEN /\ reconciled' = reconcileTextChanges(text, words)
            /\ saveCalls' = saveCalls + 1
            /\ rendered(text, words, FALSE)
       ELSE /\ UNCHANGED <<reconciled, saveCalls>>
            /\ rendered(text, words, isEditing)
    /\ UNCHANGED textPc

\* handleKeyDown as the textarea's onKeyDown.
onKeyDown(e) ==
    /\ isEditing
    /\ IF (e.ctrlKey \/ e.metaKey) /\ e.key = "s"
       THEN onBlur
       ELSE UNCHANGED textVars

InitEdit ==
    /\ ProviderStart(NoSavedState)
    /\ HooksIdle
    /\ AlignIdle
    /\ EngineIdle
    /\ words \in EditWords
    /\ text = <<>>
    /\ reconciled = <<>>
    /\ textPc = "idle"
    /\ isEditing = FALSE
    /\ lastWordsRef = words
    /\ saveCalls = 0

NextEdit ==
    \/ \E ws \in EditWords : wordsProp(ws) /\ UNCHANGED <<hookVars, providerVars, alignVars, engineVars>>
    \/ onClick /\ UNCHANGED <<hookVars, providerVars, alignVars, engineVars>>
    \/ \E t \in EditedTexts : onChange(t) /\ UNCHANGED <<hookVars, providerVars, alignVars, engineVars>>
    \/ onBlur /\ UNCHANGED <<hookVars, providerVars, alignVars, engineVars>>
    \/ \E e \in KeyEvents : onKeyDown(e) /\ UNCHANGED <<hookVars, providerVars, alignVars, engineVars>>

SpecEdit == InitEdit /\ [][NextEdit]_vars

(***************************************************************************)
(* useLineNumbers (hooks/useLineNumbers.ts).  Word indices are 0-based as  *)
(* in the source.  The measurer has a monospace font: the offsetWidth of a *)
(* text is its length times the width of a character.                      *)
(***************************************************************************)
MaxLineWords == 3
Padding == 48

LineInfo(lineNumber, startWordIndex, endWordIndex, isWrapped) ==
    [lineNumber |-> lineNumber, startWordIndex |-> startWordIndex,
     endWordIndex |-> endWordIndex, isWrapped |-> isWrapped]

offsetWidth(textContent, cw) == Len(textContent) * cw

prefixWidthOf(word, cw) ==
    (IF word.start # NULL
     THEN offsetWidth(formatTimestamp(word.start) \o <<" ">>, cw) ELSE 0)
    + (IF word.speakerLabel # NoLabel
       THEN offsetWidth(word.speakerLabel \o <<":", " ">>, cw) ELSE 0)

LoopStart ==
    [lines |-> <<>>, currentLineNumber |-> 1, currentLineStartWord |-> 0,
     currentLineWidth |-> 0, currentLineWords |-> <<>>]

\* lines.push of the line that ends at word endWordIndex.
pushLine(st, endWordIndex, isWrapped) ==
    [st EXCEPT !.lines = Append(@, LineInfo(st.currentLineNumber, st.currentLineStartWord,
                                            endWordIndex, isWrapped)),
               !.currentLineNumber = @ + 1]

\* Variant of the loop that wraps even when the current line has no word yet.
RECURSIVE lineLoopWrappingEmptyLines(_, _, _, _, _)
lineLoopWrappingEmptyLines(ws, i, st, cw, containerWidth) ==
    IF i >= Len(ws) THEN st
    ELSE LET word == ws[i + 1]
             wordText == word.punctuated_word \o <<" ">>
             paragraph == word.isParagraphStart /\ i > 0
             completed == IF Len(st.currentLineWords) > 0 THEN pushLine(st, i - 1, FALSE) ELSE st
             started == IF paragraph
                        THEN [completed EXCEPT !.currentLineStartWord = i,
                                               !.currentLineWidth = prefixWidthOf(word, cw),
                                               !.currentLineWords = <<>>]
                        ELSE st
             wordWidth == offsetWidth(wordText, cw)
             next == IF started.currentLineWidth + wordWidth > containerWidth
                     THEN [pushLine(started, i - 1, TRUE) EXCEPT
                              !.currentLineStartWord = i,
                              !.currentLineWidth = wordWidth,
                              !.currentLineWords = <<wordText>>]
                     ELSE [started EXCEPT !.currentLineWidth = @ + wordWidth,
                                          !.currentLineWords = Append(@, wordText)]
         IN  lineLoopWrappingEmptyLines(ws, i + 1, next, cw, containerWidth)

\* The for loop over the words, from word i on.
RECURSIVE lineLoop(_, _, _, _, _)
lineLoop(ws, i, st, cw, containerWidth) ==
    IF i >= Len(ws) THEN st
    ELSE LET word == ws[i + 1]
             wordText == word.punctuated_word \o <<" ">>
             paragraph == word.isParagraphStart /\ i > 0
             completed == IF Len(st.currentLineWords) > 0 THEN pushLine(st, i - 1, FALSE) ELSE st
             started == IF paragraph
                        THEN [completed EXCEPT !.currentLineStartWord = i,
                                               !.currentLineWidth = prefixWidthOf(word, cw),
                                               !.currentLineWords = <<>>]
                        ELSE st
             wordWidth == offsetWidth(wordText, cw)
             next == IF /\ started.currentLineWidth + wordWidth > containerWidth
                        /\ Len(started.currentLineWords) > 0
                     THEN [pushLine(started, i - 1, TRUE) EXCEPT
                              !.currentLineStartWord = i,
                              !.currentLineWidth = wordWidth,
                              !.currentLineWords = <<wordText>>]
                     ELSE [started EXCEPT !.currentLineWidth = @ + wordWidth,
                                          !.currentLineWords = Append(@, wordText)]
         IN  lineLoop(ws, i + 1, next, cw, containerWidth)

useLineNumbers(ws, container, cw) ==
    IF Len(ws) = 0 \/ container = NoContainer
    THEN NoLines
    ELSE LET containerWidth == container - Padding
             st == lineLoop(ws, 0, LoopStart, cw, containerWidth)
             final == IF Len(st.currentLineWords) > 0
                      THEN pushLine(st, Len(ws) - 1, FALSE)
                      ELSE st
         IN  [lines |-> final.lines, totalLines |-> final.currentLineNumber - 1]

RECURSIVE lineFrom(_, _, _)
lineFrom(lines, k, wordIndex) ==
    IF k > Len(lines) THEN 1
    ELSE IF wordIndex >= lines[k].startWordIndex /\ wordIndex <= lines[k].endWordIndex
         THEN lines[k].lineNumber
         ELSE lineFrom(lines, k + 1, wordIndex)

getLineFromWordIndex(lines, wordIndex) == lineFrom(lines, 1, wordIndex)

\* Words of a transcript: plain, long, paragraph starts without and with a
\* prefix to measure.
LineWordChoices ==
    {Word(0, hi, NULL, NULL, FALSE, NoLabel),
     Word(0, theComma, 5250, 5650, FALSE, S1),
     Word(0, yo, NULL, NULL, TRUE, NoLabel),
     Word(0, hi, 725000, 725400, TRUE, S2)}

LineWords ==
    UNION {[1..len -> LineWordChoices] : len \in 0..MaxLineWords}

\* clientWidth of the container: narrower than its padding, room for one short
\* word, room for several words.
ClientWidths == {NoContainer, 40, 52, 60}
CharWidths == {0, 1, 2}

measure ==
    /\ linesPc = "ready"
    /\ lineNumbers' = useLineNumbers(words, containerRef, charWidth)
    /\ linesPc' = "done"
    /\ UNCHANGED <<words, containerRef, charWidth>>

InitLines ==
    /\ ProviderStart(NoSavedState)
    /\ AlignIdle
    /\ EngineIdle
    /\ HighlightIdle
    /\ words \in LineWords
    /\ text = <<>>
    /\ reconciled = <<>>
    /\ textPc = "idle"
    /\ EditIdle
    /\ containerRef \in ClientWidths
    /\ charWidth \in CharWidths
    /\ lineNumbers = NoLines
    /\ linesPc = "ready"

NextLines ==
    measure /\ UNCHANGED <<providerVars, alignVars, engineVars, highlightVars, text,
                           reconciled, textPc, editVars>>

SpecLines == InitLines /\ [][NextLines]_vars

(***************************************************************************)
(* LineHighlightProvider: the highlighted line and the number of lines the *)
(* editors report.  Every call is rendered before the next, so that the    *)
(* totalLines navigateDown captured is the cell's value.                   *)
(***************************************************************************)
MaxLines == 10

navigateUp ==
    /\ currentLine' = Max(1, currentLine - 1)
    /\ UNCHANGED totalLines

navigateDown ==
    /\ currentLine' = Min(totalLines, currentLine + 1)
    /\ UNCHANGED totalLines

setTotalLines(total) ==
    /\ totalLines' = total
    /\ UNCHANGED currentLine

InitHighlight ==
    /\ ProviderStart(NoSavedState)
    /\ AlignIdle
    /\ TextIdle
    /\ EngineIdle
    /\ LineIdle
    /\ HighlightIdle

NextHighlight ==
    \/ navigateUp /\ UNCHANGED <<providerVars, alignVars, textVars, engineVars, lineVars>>
    \/ navigateDown /\ UNCHANGED <<providerVars, alignVars, textVars, engineVars, lineVars>>
    \/ \E total \in 0..MaxLines :
          setTotalLines(total)
             /\ UNCHANGED <<providerVars, alignVars, textVars, engineVars, lineVars>>

SpecHighlight == InitHighlight /\ [][NextHighlight]_vars

\* The alignment engine over every pair of bounded sequences.
InitAlign ==
    /\ ProviderStart(NoSavedState)
    /\ HooksIdle
    /\ TextIdle
    /\ EngineIdle
    /\ edited \in EditedInputs
    /\ reference \in ReferenceInputs
    /\ aligned = <<>>
    /\ alignPc = "ready"

NextAlign == align /\ UNCHANGED <<hookVars, providerVars, textVars, engineVars>>

SpecAlign == InitAlign /\ [][NextAlign]_vars

\* The interpolator over every bounded word sequence.
InitInterpolate ==
    /\ ProviderStart(NoSavedState)
    /\ HooksIdle
    /\ AlignIdle
    /\ TextIdle
    /\ engineWords \in TimedInputs
    /\ engineSegments = <<>>
    /\ engineOut = <<>>
    /\ enginePc = "ready"

NextInterpolate == interpolate /\ UNCHANGED <<hookVars, providerVars, alignVars, textVars>>

SpecInterpolate == InitInterpolate /\ [][NextInterpolate]_vars

\* The diarization overlay over every bounded word sequence and segment list.
InitOverlay ==
    /\ ProviderStart(NoSavedState)
    /\ HooksIdle
    /\ AlignIdle
    /\ TextIdle
    /\ engineWords \in OverlayWords
    /\ engineSegments \in OverlaySegments
    /\ engineOut = <<>>
    /\ enginePc = "ready"

NextOverlay == overlay /\ UNCHANGED <<hookVars, providerVars, alignVars, textVars>>

SpecOverlay == InitOverlay /\ [][NextOverlay]_vars

(***************************************************************************)
(* Properties.                                                             *)
(***************************************************************************)
\* The positions of transcriptVersions' holding a version this step created:
\* one that neither the queued nor the rendered history held.
created ==
    {k \in DOMAIN transcriptVersions' :
        transcriptVersions'[k].id
            \notin IdsOf(transcriptVersions) \cup IdsOf(view.transcriptVersions)}

truncatedThenAppended(k) ==
    /\ k = Len(transcriptVersions')
    /\ SubSeq(transcriptVersions', 1, k - 1) =
          Slice0(view.transcriptVersions, view.currentVersionIndex + 1)
    /\ currentVersionIndex' = k - 1

\* C1 as stated: every step that creates a version keeps the versions at
\* 0..currentVersionIndex it was rendered with, drops the later ones and
\* appends the new version as the last element, with the index pointing at it.
C1_EveryCreationTruncatesThenAppends ==
    [][\A k \in created : truncatedThenAppended(k)]_vars

\* C1 amended: apply MFA, apply Whisper and interpolate truncate the rendered
\* history after the rendered index and append the new version as the last
\* element, with the index pointing at it; paste and formatted upload replace
\* the whole history by the single new version, at index 0.
C1_AppendOrReplace ==
    [][\A k \in created :
          IF transcriptVersions'[k].name \in {"Pasted Transcript", "Uploaded Transcript"}
          THEN /\ transcriptVersions' = <<transcriptVersions'[k]>>
               /\ currentVersionIndex' = 0
          ELSE truncatedThenAppended(k)]_vars

\* An interpolation made after an undo has just dropped the redo version.
C1_Witness ==
    /\ renderPending
    /\ Len(view.transcriptVersions) = 2
    /\ view.currentVersionIndex = 0
    /\ view.transcriptVersions[2].name = "MFA Applied"
    /\ Len(transcriptVersions) = 2
    /\ transcriptVersions[1] = view.transcriptVersions[1]
    /\ transcriptVersions[2].name = "Interpolated"
    /\ currentVersionIndex = 1

\* C2: a version that stays in the history keeps its name and its words in
\* every step (merge, replace, setTranscript, undo, redo, apply, interpolate).
C2_StoredVersionsImmutable ==
    [][\A i \in DOMAIN transcriptVersions : \A j \in DOMAIN transcriptVersions' :
          transcriptVersions[i].id = transcriptVersions'[j].id
              => transcriptVersions'[j] = transcriptVersions[i]]_vars

\* A merge of S2 into S1 was rendered: the live buffer carries S1 where the
\* stored current version still carries S2.
C2_Witness ==
    /\ ~renderPending
    /\ view.currentVersion.id # 0
    /\ view.isDirty
    /\ Len(view.currentVersion.words) = Len(currentTranscript)
    /\ \E k \in DOMAIN currentTranscript :
          /\ view.currentVersion.words[k].speakerLabel = S2
          /\ currentTranscript[k].speakerLabel = S1

C4_IndexInRange ==
    /\ Len(transcriptVersions) = 0 => currentVersionIndex = 0
    /\ Len(transcriptVersions) > 0
          => currentVersionIndex \in 0..(Len(transcriptVersions) - 1)
    /\ ~renderPending
          => /\ view.canUndo <=> currentVersionIndex > 0
             /\ view.canRedo <=> currentVersionIndex < Len(transcriptVersions) - 1

\* In the middle of a three-version history, after an undo: both directions open.
C4_Witness ==
    /\ ~renderPending
    /\ Len(transcriptVersions) = 3
    /\ currentVersionIndex = 1
    /\ view.canUndo
    /\ view.canRedo

failedImport ==
    \/ \E f \in MfaFiles : ~f.ok /\ handleMfaUpload(f)
    \/ \E f \in WhisperFiles : ~f.ok /\ handleWhisperUpload(f)
    \/ \E f \in PyannoteFiles : ~f.ok /\ handlePyannoteUpload(f)
    \/ \E f \in FormattedFiles : ~f.ok /\ handleFormattedTranscriptUpload(f)
    \/ \E t \in PastedTexts : ~t.ok /\ handleTranscriptPaste(t)

\* C5: an import whose parser throws changes none of the versions, the index,
\* the MFA and Whisper data, the segments, the speaker map, the speaker tags
\* and the applied flags.
C5_FailedImportChangesNothing ==
    [][failedImport
          => UNCHANGED <<transcriptVersions, currentVersionIndex, mfaData, whisperData,
                         diarizationSegments, speakerMap, originalSpeakerTags,
                         mfaApplied, whisperApplied, formattedTranscriptApplied>>]_vars

\* A Pyannote upload failed after an earlier one had succeeded.
C5_Witness ==
    /\ alertShown = "Invalid Pyannote JSON file"
    /\ diarizationSegments = Segments
    /\ speakerMap # {}
    /\ Len(transcriptVersions) > 0

\* C6 as stated: while an apply is pending (run, not yet rendered) a second
\* apply is rejected, so at most one apply runs between two renders.
C6_SecondApplyRejected == Len(applyLog) <= 1

\* Two applies ran on the same rendered history; the second one's history,
\* built without the first one's version, is the one queued.
C6_Witness ==
    /\ Len(applyLog) = 2
    /\ applyLog[1].handler = "handleApplyMfaTimestamps"
    /\ applyLog[2].handler = "handleApplyWhisperTimestamps"
    /\ \A k \in DOMAIN transcriptVersions : transcriptVersions[k].name # "MFA Applied"
    /\ mfaApplied

indexOfCall(log, name) ==
    IF \E k \in DOMAIN log : log[k] = name
    THEN CHOOSE k \in DOMAIN log : log[k] = name
    ELSE 0

\* C7 as stated: every apply strips the tags before it aligns and
\* reconstructs the recorded tags after.
C7_StripAlignReconstruct ==
    \A k \in DOMAIN applyLog :
        LET strip == indexOfCall(applyLog[k].calls, "stripSpeakerTags")
            alignment == indexOfCall(applyLog[k].calls, "alignAndApplyTimestamps")
            reconstruct == indexOfCall(applyLog[k].calls, "reconstructSpeakerTags")
        IN  /\ strip # 0 /\ strip < alignment
            /\ reconstruct # 0 /\ alignment < reconstruct

\* An apply ran while tags recorded at a formatted upload were held.
C7_Witness ==
    /\ Len(applyLog) = 1
    /\ originalSpeakerTags = FormattedTags
    /\ applyLog[1].calls = <<"alignAndApplyTimestamps", "addSpeakerSeparationLines">>

roundTripped == textPc = "saved" /\ text = generateTextFromWords(words)

\* C8 as stated: the text generated from the words parses back into as many
\* words, with the same punctuated_word at every position.
C8_TextRoundTrip ==
    roundTripped
        => /\ Len(reconciled) = Len(words)
           /\ \A k \in DOMAIN words :
                 reconciled[k].punctuated_word = words[k].punctuated_word

\* The S.mmm prefix of a one-word transcript came back as a word.
C8_Witness ==
    /\ roundTripped
    /\ Len(words) = 1
    /\ words[1].speakerLabel = NoLabel
    /\ Len(reconciled) = 2
    /\ reconciled[1].punctuated_word = formatTimestamp(words[1].start)
    /\ reconciled[2].punctuated_word = words[1].punctuated_word

\* C9: align returns as many words as the edited sequence, with the same text
\* at every position and strictly increasing numbers; no reference word is
\* appended.
C9_AlignKeepsEditedText ==
    alignPc = "done"
        => /\ Len(aligned) = Len(edited)
           /\ \A k \in DOMAIN edited :
                 aligned[k].punctuated_word = edited[k].punctuated_word
           /\ \A k \in 1..(Len(aligned) - 1) : aligned[k].number < aligned[k + 1].number

\* Fewer edited words than reference words, one unmatched and one matched.
C9_Witness ==
    /\ alignPc = "done"
    /\ Len(edited) >= 2
    /\ Len(reference) > Len(edited)
    /\ aligned[1].start = NULL
    /\ aligned[2].start # NULL

\* C10: every non-null start time of the output is the start time of a
\* reference word whose normalized text is that of the edited word at that
\* position.
C10_TimesCopiedFromReference ==
    alignPc = "done"
        => \A k \in DOMAIN aligned :
              aligned[k].start # NULL
                  => \E p \in DOMAIN reference :
                        /\ reference[p].start = aligned[k].start
                        /\ normalizedText(reference[p].punctuated_word) =
                              normalizedText(edited[k].punctuated_word)

\* One stale edited time was replaced by a reference time, another by null.
C10_Witness ==
    /\ alignPc = "done"
    /\ \E k \in DOMAIN edited : edited[k].start # NULL /\ aligned[k].start = NULL
    /\ \E k \in DOMAIN edited :
          /\ edited[k].start # NULL
          /\ aligned[k].start # NULL
          /\ aligned[k].start # edited[k].start

\* The reference position an aligned word's start time was copied from
\* (reference start times are distinct); 0 for an unmatched word.
matchedPosition(k) ==
    IF aligned[k].start = NULL THEN 0
    ELSE CHOOSE p \in DOMAIN reference : reference[p].start = aligned[k].start

\* C11: the reference positions matched by align are strictly increasing in
\* edited order, so no reference word gives its timing to two edited words.
C11_MatchesStrictlyIncreasing ==
    alignPc = "done"
        => \A i \in DOMAIN aligned : \A j \in DOMAIN aligned :
              (i < j /\ aligned[i].start # NULL /\ aligned[j].start # NULL)
                  => matchedPosition(i) < matchedPosition(j)

\* Two adjacent identical edited words, matched to two different reference
\* occurrences.
C11_Witness ==
    /\ alignPc = "done"
    /\ Len(edited) >= 2
    /\ normalizedText(edited[1].punctuated_word) = normalizedText(edited[2].punctuated_word)
    /\ matchedPosition(1) # 0
    /\ matchedPosition(2) > matchedPosition(1)

nonDecreasing(ws) ==
    \A i \in DOMAIN ws : \A j \in DOMAIN ws :
        (i < j /\ ws[i].start # NULL /\ ws[j].start # NULL) => ws[i].start <= ws[j].start

holding(k) ==
    {i \in DOMAIN engineSegments :
        /\ engineSegments[i].start <= engineWords[k].start
        /\ engineWords[k].start < engineSegments[i].end}

overlaidTotal ==
    \A k \in DOMAIN engineOut :
        engineOut[k].start # NULL => engineOut[k].speakerLabel # NoLabel

untimed(ws) == \A k \in DOMAIN ws : ws[k].start = NULL /\ ws[k].end = NULL

\* The texts of the words of ws that are not separator lines.
spokenTexts(ws) ==
    LET spoken == SelectSeq(ws, LAMBDA w : w.punctuated_word # <<>>)
    IN  [k \in DOMAIN spoken |-> spoken[k].punctuated_word]

\* C15: applying timestamps when the uploaded reference parsed to no word is
\* not rejected: no alert is shown and a new version becomes current in which
\* every word of the live transcript is kept, in order, and no word has a
\* start or an end.
C15_EmptyReferenceApplied ==
    [][(/\ handleApplyMfaTimestamps
        /\ view.mfaData.loaded
        /\ view.mfaData.words = <<>>
        /\ Len(view.currentTranscript) > 0)
          => LET new == transcriptVersions'[Len(transcriptVersions')]
             IN  /\ alertShown' = NoAlert
                 /\ currentVersionIndex' = Len(transcriptVersions') - 1
                 /\ new.id \notin IdsOf(view.transcriptVersions)
                 /\ untimed(new.words)
                 /\ spokenTexts(new.words) = spokenTexts(view.currentTranscript)]_vars

\* A wordless reference was applied to a transcript that had a timed word: the
\* new current version holds the same words, none of them timed.
C15_Witness ==
    /\ renderPending
    /\ alertShown = NoAlert
    /\ view.mfaData.loaded /\ view.mfaData.words = <<>>
    /\ mfaApplied
    /\ \E k \in DOMAIN view.currentTranscript : view.currentTranscript[k].start # NULL
    /\ Len(transcriptVersions) > 0
    /\ currentVersionIndex = Len(transcriptVersions) - 1
    /\ LET new == transcriptVersions[Len(transcriptVersions)]
       IN  /\ new.id \notin IdsOf(view.transcriptVersions)
           /\ spokenTexts(new.words) = spokenTexts(view.currentTranscript)
           /\ untimed(new.words)

\* C16 as stated: leaving the virtual tab and coming back keeps the versions,
\* the index, the segments, the speaker map, the applied flags, the uploaded
\* MFA and Whisper data and the live transcript.
C16_RemountPreservesState ==
    [][Remount => UNCHANGED <<transcriptVersions, currentVersionIndex,
                              diarizationSegments, speakerMap, mfaApplied,
                              whisperApplied, mfaData, whisperData,
                              currentTranscript>>]_vars

\* Rendered state with uploaded MFA data not yet applied, from which the tab
\* can be left.
C16_Witness ==
    /\ ~renderPending
    /\ calls < MaxCalls
    /\ mfaData.loaded
    /\ ~mfaApplied
    /\ Len(mfaData.words) > 0

\* C17: whenever no render is pending, the value stored under the virtual
\* autosave key is the object of the eight saved fields of the current state;
\* no step changes what is stored under another key, and a confirmed reset
\* leaves the virtual key absent until the next render.
C17_AutosaveOwnKeyOnly ==
    /\ [](~renderPending => localStorage[VirtualKey] = stateToSave)
    /\ [][/\ DOMAIN localStorage' = DOMAIN localStorage
          /\ \A k \in DOMAIN localStorage \ {VirtualKey} :
                localStorage'[k] = localStorage[k]
          /\ handleReset(TRUE) => localStorage'[VirtualKey] = Absent]_vars

\* After an audio upload and a render, the stored value names the file and
\* holds the current history, next to the classic editor's untouched entry.
C17_Witness ==
    /\ ~renderPending
    /\ audioFileName \in AudioFileNames
    /\ Len(transcriptVersions) > 0
    /\ localStorage[VirtualKey] = stateToSave
    /\ localStorage[ClassicKey] = ClassicState

\* C18 as stated, for an edit session saved without a change to the text: when
\* the saved words are the same texts in the same places, every word keeps its
\* start, its end and its speaker label.
C18_UnchangedWordsKeepTimes ==
    (/\ roundTripped
     /\ Len(reconciled) = Len(words)
     /\ \A k \in DOMAIN words :
           reconciled[k].punctuated_word = words[k].punctuated_word)
        => \A k \in DOMAIN words :
              /\ reconciled[k].start = words[k].start
              /\ reconciled[k].end = words[k].end
              /\ reconciled[k].speakerLabel = words[k].speakerLabel

\* Two words of the same text, the second one timed: saved unchanged, the
\* second carries the first one's start.
C18_Witness ==
    /\ roundTripped
    /\ Len(words) = 2
    /\ Len(reconciled) = 2
    /\ words[1].punctuated_word = words[2].punctuated_word
    /\ reconciled[2].punctuated_word = words[2].punctuated_word
    /\ words[2].start # NULL
    /\ words[1].start # words[2].start
    /\ reconciled[2].start = words[1].start

\* C19: a step that changes speakerMap or diarizationSegments is a Pyannote
\* upload that parsed, a handleSpeakerMapUpdate or a confirmed reset; apply,
\* interpolate, paste, formatted upload, undo, redo, replace and merge leave
\* both as they are.
C19_SpeakerMapFrame ==
    [][(speakerMap' # speakerMap \/ diarizationSegments' # diarizationSegments)
          => \/ \E f \in PyannoteFiles : f.ok /\ handlePyannoteUpload(f)
             \/ \E m \in SpeakerMaps : handleSpeakerMapUpdate(m)
             \/ handleReset(TRUE)]_vars

\* With a speaker map and segments in place, timestamps were applied and a
\* version created: map and segments are still there.
C19_Witness ==
    /\ speakerMap # {}
    /\ diarizationSegments # <<>>
    /\ Len(applyLog) = 1
    /\ renderPending
    /\ Len(transcriptVersions) > Len(view.transcriptVersions)

\* C20 as stated: when the saved text is the generated text with one segment
\* timestamp inserted in front of a word, the saved transcript has as many
\* words as before, none of them is the timestamp text or the "label:" text,
\* and a word starts a paragraph with the inserted time and label.
C20_SegmentTimestampNoExtraWord ==
    (textPc = "saved" /\ Len(words) > 0)
        => \A time \in SegmentTimes : \A label \in SegmentLabels :
              \A p \in selectionStarts(generateTextFromWords(words)) :
                 text = segmentInserted(generateTextFromWords(words), p, time, label)
                    => /\ Len(reconciled) = Len(words)
                       /\ \A k \in DOMAIN reconciled :
                             reconciled[k].punctuated_word
                                \notin {formatTimestamp(time), label \o <<":">>}
                       /\ \E k \in DOMAIN reconciled :
                             /\ reconciled[k].isParagraphStart
                             /\ reconciled[k].start = time
                             /\ reconciled[k].speakerLabel = label

\* One untimed, unlabelled word with a segment timestamp of 5.250 s inserted
\* in front of it: saved, the time and the label are words of the transcript.
C20_Witness ==
    /\ textPc = "saved"
    /\ Len(words) = 1
    /\ words[1].start = NULL
    /\ words[1].speakerLabel = NoLabel
    /\ text = segmentInserted(generateTextFromWords(words), 0, 5250, S1)
    /\ Len(reconciled) = 3
    /\ reconciled[1].punctuated_word = formatTimestamp(5250)
    /\ reconciled[2].punctuated_word = S1 \o <<":">>
    /\ reconciled[3].punctuated_word = words[1].punctuated_word

\* C21 as stated: saved without a change to the text, a word whose text also
\* occurs earlier in the transcript keeps its own start and end, and no two
\* timed words of one text end up with the start of the same original word.
C21_RepeatedWordKeepsOwnTimes ==
    (roundTripped /\ Len(reconciled) = Len(words))
        => \A i, j \in DOMAIN words :
              (/\ i < j
               /\ words[i].punctuated_word = words[j].punctuated_word
               /\ reconciled[j].punctuated_word = words[j].punctuated_word)
                 => /\ reconciled[j].start = words[j].start
                    /\ reconciled[j].end = words[j].end

\* Two timed words of one text with different starts: saved unchanged, both
\* carry the times of the first.
C21_Witness ==
    /\ roundTripped
    /\ Len(words) = 2
    /\ Len(reconciled) = 2
    /\ words[1].punctuated_word = words[2].punctuated_word
    /\ words[1].start # NULL
    /\ words[2].start # NULL
    /\ words[1].start # words[2].start
    /\ reconciled[1].start = words[1].start
    /\ reconciled[2].start = words[1].start
    /\ reconciled[2].end = words[1].end

\* The lines of the text buffer, and the position among the saved words of the
\* first word of line li (lines counted from 0, as in the source).
textLines == splitLines(text, 1, <<>>)
firstWordOfLine(li) == Len(reconcileFrom(words, SubSeq(textLines, 1, li), 0, <<>>)) + 1

\* C22 as stated: in the saved words, the first word of every line that begins
\* with a speaker tag and of every line that follows a blank line is marked
\* isParagraphStart, the first line of the text included.
C22_TaggedLineStartsParagraph ==
    textPc = "saved"
        => \A li \in 0..(Len(textLines) - 1) :
              LET l == trim(textLines[li + 1])
              IN  (/\ Len(reconcileLine(words, l, li, 1)) > 0
                   /\ \/ matchLine(l).speakerTag # <<>>
                      \/ li > 0 /\ trim(textLines[li]) = <<>>)
                     => reconciled[firstWordOfLine(li)].isParagraphStart

\* The one-line text "S1: hi" was saved: its word carries the label S1 and is
\* not marked as a paragraph start.
C22_Witness ==
    /\ textPc = "saved"
    /\ text = S1 \o <<":", " ">> \o hi
    /\ Len(reconciled) = 1
    /\ reconciled[1].punctuated_word = hi
    /\ reconciled[1].speakerLabel = S1
    /\ ~reconciled[1].isParagraphStart

\* The saved words that line li of the text contributed.
wordsOfLine(li) == SubSeq(reconciled, firstWordOfLine(li), firstWordOfLine(li + 1) - 1)

\* Label texts of the four shapes: S<n>, S?, Speaker <n>, a capitalized name.
LabelShapes ==
    {S1, <<"S", "?">>, <<"S", "p", "e", "a", "k", "e", "r", " ", "1">>, <<"B", "o", "b">>}

C24_UndoRedoInverse ==
    [][LET last == Len(transcriptVersions) - 1
       IN  /\ (undo \/ redo) => transcriptVersions' = transcriptVersions
           /\ (undo /\ ~renderPending)
                 => /\ currentVersionIndex' =
                          IF currentVersionIndex > 0 THEN currentVersionIndex - 1
                          ELSE currentVersionIndex
                    /\ currentVersionIndex > 0
                          => /\ canRedoOf(transcriptVersions', currentVersionIndex')
                             /\ currentVersionIndex' + 1 = currentVersionIndex
           /\ (redo /\ ~renderPending)
                 => /\ currentVersionIndex' =
                          IF currentVersionIndex < last THEN currentVersionIndex + 1
                          ELSE currentVersionIndex
                    /\ currentVersionIndex < last
                          => /\ canUndoOf(currentVersionIndex')
                             /\ currentVersionIndex' - 1 = currentVersionIndex
           /\ Render
                 => /\ currentVersionIndex' = currentVersionIndex
                    /\ transcriptVersions' = transcriptVersions
                    /\ view'.canUndo = canUndoOf(currentVersionIndex)
                    /\ view'.canRedo = canRedoOf(transcriptVersions, currentVersionIndex)]_vars

\* An undo from the last of two or more versions is queued: the index is one
\* below the rendered one and the history is the rendered one.
C24_Witness ==
    /\ renderPending
    /\ view.canUndo
    /\ ~view.canRedo
    /\ Len(view.transcriptVersions) >= 2
    /\ transcriptVersions = view.transcriptVersions
    /\ currentVersionIndex = view.currentVersionIndex - 1
    /\ currentTranscript = view.currentTranscript

\* C25 as stated: also when undo or redo is called several times before the
\* provider renders again, an undo made with the index at or above 0 leaves
\* it at or above 0, and a redo made with the index at or below the last index
\* of the history leaves it at or below the last index.
C25_BatchedUndoRedoStayInRange ==
    [][/\ (undo /\ currentVersionIndex >= 0) => currentVersionIndex' >= 0
       /\ (redo /\ currentVersionIndex <= Len(transcriptVersions) - 1)
             => currentVersionIndex' <= Len(transcriptVersions') - 1]_vars

\* Two undos were called on the render that showed index 1 of a two-version
\* history: the queued index is -1.
C25_Witness ==
    /\ renderPending
    /\ view.canUndo
    /\ view.currentVersionIndex = 1
    /\ transcriptVersions = view.transcriptVersions
    /\ Len(transcriptVersions) = 2
    /\ currentVersionIndex = -1

cells ==
    <<audioFileName, localStorage, transcriptVersions, currentVersionIndex, mfaData,
      mfaApplied, whisperData, whisperApplied, diarizationSegments, speakerMap,
      currentTranscript, formattedTranscriptApplied, originalSpeakerTags>>

\* C26: with every call rendered before the next, an apply made while its
\* reference data is null or the live transcript is empty only alerts and
\* changes no state; an apply that ran has cleared its reference data and set
\* its applied flag; only an upload makes reference data available again, so
\* an apply repeated without a new upload is rejected and adds no version.
C26_ApplyWithoutDataRejected ==
    [][/\ (handleApplyMfaTimestamps /\ (~mfaData.loaded \/ Len(currentTranscript) = 0))
             => /\ alertShown' = "No MFA data or transcript available"
                /\ UNCHANGED <<cells, view, applyLog, renderPending>>
       /\ (handleApplyWhisperTimestamps
             /\ (~whisperData.loaded \/ Len(currentTranscript) = 0))
             => /\ alertShown' = "No Whisper data or transcript available"
                /\ UNCHANGED <<cells, view, applyLog, renderPending>>
       /\ (handleApplyMfaTimestamps /\ mfaData.loaded /\ Len(currentTranscript) > 0)
             => /\ mfaData' = NoData
                /\ mfaApplied'
                /\ transcriptVersions'[Len(transcriptVersions')].name = "MFA Applied"
       /\ (handleApplyWhisperTimestamps /\ whisperData.loaded /\ Len(currentTranscript) > 0)
             => /\ whisperData' = NoData
                /\ whisperApplied'
                /\ transcriptVersions'[Len(transcriptVersions')].name = "Whisper Applied"
       /\ (~mfaData.loaded /\ mfaData'.loaded) => \E file \in MfaFiles : handleMfaUpload(file)
       /\ (~whisperData.loaded /\ whisperData'.loaded)
             => \E file \in WhisperFiles : handleWhisperUpload(file)]_vars

\* The version of an MFA apply made on top of a history of two is rendered as
\* the current one, and the repeated apply was rejected with the alert: data cleared, flag set, nothing queued.
C26_Witness ==
    /\ view.currentVersion.name = "MFA Applied"
    /\ Len(transcriptVersions) = 3
    /\ view.currentVersionIndex = 2
    /\ transcriptVersions = view.transcriptVersions
    /\ currentVersionIndex = view.currentVersionIndex
    /\ applyLog = <<>>
    /\ ~mfaData.loaded
    /\ ~view.mfaData.loaded
    /\ mfaApplied
    /\ Len(currentTranscript) > 0
    /\ alertShown = "No MFA data or transcript available"
    /\ ~renderPending

\* The live transcript differs from the current version in what the claim
\* lists: there is no current version and the transcript is non-empty, or the
\* lengths differ, or some position differs in text, speaker or paragraph flag.
differsFromCurrentVersion ==
    LET inRange == currentVersionIndex >= 0 /\ currentVersionIndex < Len(transcriptVersions)
        stored == transcriptVersions[currentVersionIndex + 1].words
    IN  IF ~inRange THEN currentTranscript # <<>>
        ELSE \/ Len(stored) # Len(currentTranscript)
             \/ \E k \in 1..Len(stored) :
                   <<stored[k].punctuated_word, stored[k].speakerLabel,
                     stored[k].isParagraphStart>>
                   # <<currentTranscript[k].punctuated_word,
                       currentTranscript[k].speakerLabel,
                       currentTranscript[k].isParagraphStart>>

\* C27: handleInterpolateEdits adds a version named 'Interpolated' after the
\* current one exactly when the live transcript differs from the current
\* version in length, text, speaker or paragraph flag (or there is no current
\* version and the transcript is non-empty); otherwise, also when only times
\* differ, the history and the index stay as they are.
C27_InterpolateExactlyWhenDirty ==
    [][handleInterpolateEdits =>
          IF differsFromCurrentVersion
          THEN /\ Len(transcriptVersions')
                     = Len(Slice0(transcriptVersions, currentVersionIndex + 1)) + 1
               /\ Slice0(transcriptVersions', Len(transcriptVersions') - 1)
                     = Slice0(transcriptVersions, currentVersionIndex + 1)
               /\ transcriptVersions'[Len(transcriptVersions')].name = "Interpolated"
               /\ transcriptVersions'[Len(transcriptVersions')].words
                     = interpolateTimestamps(currentTranscript)
               /\ currentVersionIndex' = Len(transcriptVersions') - 1
          ELSE /\ UNCHANGED <<transcriptVersions, currentVersionIndex>>
               /\ alertShown' = "No changes to interpolate"]_vars

\* The live transcript has the texts, speakers and flags of the current version
\* but other times, and the interpolation was refused.
C27_Witness ==
    /\ alertShown = "No changes to interpolate"
    /\ ~renderPending
    /\ view.currentVersion.id # 0
    /\ currentTranscript # view.currentVersion.words
    /\ ~differsFromCurrentVersion

saveKey(e) == (e.ctrlKey \/ e.metaKey) /\ e.key = "s"

\* C28: while isEditing a change of the words prop leaves the text buffer as
\* it is; the buffer is regenerated from words only in a render with isEditing
\* false and words other than those it was last made from; a blur or a
\* Ctrl/Cmd+S while editing calls onSaveTranscript once, with
\* reconcileTextChanges(text), and ends with isEditing false; a blur while not
\* editing, and every other event, calls it zero times.
C28_EditSessionKeepsTextAndSavesOnce ==
    [][/\ (isEditing /\ words' # words) => text' = text
       /\ (text' # text /\ ~(\E t \in EditedTexts : onChange(t)))
             => /\ ~isEditing'
                /\ words' # lastWordsRef
                /\ text' = generateTextFromWords(words')
       /\ (isEditing /\ (onBlur \/ \E e \in KeyEvents : saveKey(e) /\ onKeyDown(e)))
             => /\ saveCalls' = saveCalls + 1
                /\ reconciled' = reconcileTextChanges(text, words)
                /\ ~isEditing'
       /\ (~isEditing /\ onBlur) => saveCalls' = saveCalls /\ reconciled' = reconciled
       /\ saveCalls' # saveCalls
             => isEditing /\ (onBlur \/ \E e \in KeyEvents : saveKey(e) /\ onKeyDown(e))]_vars

\* The words prop changed during an edit session and the typed text is still in
\* the buffer; one session was saved before.
C28_Witness ==
    /\ isEditing
    /\ saveCalls = 1
    /\ words # lastWordsRef
    /\ text \in EditedTexts
    /\ text # generateTextFromWords(words)

\* Numbers of the lines that contain word index i.
linesContaining(i) ==
    {lineNumbers.lines[k].lineNumber :
        k \in {j \in DOMAIN lineNumbers.lines :
                  /\ lineNumbers.lines[j].startWordIndex <= i
                  /\ i <= lineNumbers.lines[j].endWordIndex}}

\* C29: for a non-empty word list and a mounted container, the lines are
\* consecutive non-empty ranges of word indices covering 0..n-1 in order, they
\* are numbered 1..lines.length, totalLines is lines.length, every paragraph
\* start after word 0 starts a line, and getLineFromWordIndex(i) is the number
\* of the one line that contains i.
C29_LinesPartitionWords ==
    (linesPc = "done" /\ Len(words) > 0 /\ containerRef # NoContainer) =>
        LET lines == lineNumbers.lines
            n == Len(words)
        IN  /\ Len(lines) >= 1
            /\ lines[1].startWordIndex = 0
            /\ lines[Len(lines)].endWordIndex = n - 1
            /\ \A k \in 1..Len(lines) :
                  /\ lines[k].startWordIndex <= lines[k].endWordIndex
                  /\ lines[k].lineNumber = k
                  /\ k > 1 => lines[k].startWordIndex = lines[k - 1].endWordIndex + 1
            /\ lineNumbers.totalLines = Len(lines)
            /\ \A i \in 1..(n - 1) :
                  words[i + 1].isParagraphStart
                     => \E k \in 1..Len(lines) : lines[k].startWordIndex = i
            /\ \A i \in 0..(n - 1) :
                  linesContaining(i) = {getLineFromWordIndex(lines, i)}

\* Three words put on three lines: one ended by a paragraph start, one by the
\* container's width.
C29_Witness ==
    /\ linesPc = "done"
    /\ Len(words) = 3
    /\ Len(lineNumbers.lines) = 3
    /\ \E k \in 1..3 : lineNumbers.lines[k].isWrapped
    /\ \E k \in 1..2 : ~lineNumbers.lines[k].isWrapped

\* C30 as stated: after any sequence of navigateUp, navigateDown and
\* setTotalLines from currentLine = 1, totalLines = 0, currentLine is at least
\* 1, and at most totalLines whenever totalLines is at least 1.
C30_CurrentLineInRange ==
    /\ currentLine >= 1
    /\ totalLines >= 1 => currentLine <= totalLines

\* navigateDown was called while no lines were reported.
C30_Witness ==
    /\ currentLine = 0
    /\ totalLines = 0

====
